---------------------------- MODULE Spec2Model ----------------------------
(***************************************************************************)
(* A model of the LeKiwi control center: the register codec                *)
(* (motors/encoding_utils.py), the robot object (robot/lekiwi.py: the      *)
(* connection lifecycle, calibration, the action/observation pipeline and  *)
(* the safety clamp) and the request handlers that drive the one shared    *)
(* robot instance (api/routes/*.py).                                       *)
(*                                                                         *)
(* Seven specifications share the state:                                   *)
(*   Spec        the robot object driven call by call by one caller;       *)
(*   SpecAction  send_action on a connected robot, over every limit        *)
(*               configuration and a wider set of actions;                 *)
(*   SpecCal     calibrate() on a connected robot, over a wider set of     *)
(*               captured offsets and recorded ranges;                     *)
(*   SpecLoad    _load_calibration over calibration files with complete    *)
(*               and malformed entries;                                    *)
(*   SpecKin     the two kinematic transforms over a grid of body          *)
(*               velocities, and get_observation over wheel readings;      *)
(*   SpecCodec   the sign-magnitude codec over bounded inputs and over the *)
(*               raw speeds of _degps_to_raw;                              *)
(*   SpecApi     the request handlers on the event loop together with the  *)
(*               frame generators of the camera stream endpoint.           *)
(***************************************************************************)
EXTENDS Integers, Sequences, FiniteSets, TLC

VARIABLES
    config,            \* LeKiwiConfig: max_relative_target, disable_torque_on_disconnect
    calibration_file,  \* content of config/calibration.json
    bus_calibration,   \* bus.calibration
    bus_connected,     \* bus.is_connected
    cam_connected,     \* cam.is_connected, per configured camera
    session,           \* history of the bus session, from bus.connect on: was
                       \* write_calibration called in it, and did the connect()
                       \* that opened it return normally
    pc,                \* "idle" between calls, "done" when a call has ended and its
                       \* caller looks at the outcome, else where calibrate waits
    call,              \* the robot call that is running or has ended, its input and result
    trace,             \* the bus/camera/storage operations of that call, in order
    codec,             \* the last codec evaluation
    loop_task,         \* the request handler holding the event loop, if any
    streams            \* the camera-stream frame generators (threadpool)

vars == <<config, calibration_file, bus_calibration, bus_connected, cam_connected,
          session, pc, call, trace, codec, loop_task, streams>>

robot_vars == <<config, calibration_file, bus_calibration, bus_connected,
                cam_connected, session, pc, call, trace>>

---------------------------------------------------------------------------
(* Bounds of the model.                                                    *)

\* sign bits 0..MaxSignBit are explored by the codec specification
MaxSignBit == 4
\* arm positions (goal and present) range over -MaxPos..MaxPos
MaxPos == 1
\* configured limits range over -MaxLimit..MaxLimit
MaxLimit == 1
\* an action of SpecAction carries position goals for at most MaxKeys actuators
MaxKeys == 2
\* frame generators that may be alive at once
MaxStreams == 1

\* the body velocities of SpecKin reach MaxSpeed steps of the grid on each axis
MaxSpeed == 2

---------------------------------------------------------------------------
(* Integer helpers.                                                        *)

Abs(x) == IF x < 0 THEN -x ELSE x

\* numpy.sign
Sign(x) == IF x > 0 THEN 1 ELSE IF x < 0 THEN -1 ELSE 0

Pow2(n) == 2 ^ n

RECURSIVE BitAnd(_, _)
\* a & b on non-negative integers
BitAnd(a, b) ==
    IF a = 0 \/ b = 0 THEN 0
    ELSE (a % 2) * (b % 2) + 2 * BitAnd(a \div 2, b \div 2)

RECURSIVE BitOr(_, _)
\* a | b on non-negative integers
BitOr(a, b) ==
    IF a = 0 THEN b
    ELSE IF b = 0 THEN a
    ELSE (IF a % 2 = 1 \/ b % 2 = 1 THEN 1 ELSE 0) + 2 * BitOr(a \div 2, b \div 2)

---------------------------------------------------------------------------
(* Register codec: motors/encoding_utils.py                                *)

\* a variant of encode that sets the bit above the sign bit
encode_sign_magnitude_wrong_bit(value, sign_bit) ==
    IF value < 0
    THEN BitOr(Abs(value), Pow2(sign_bit + 1))
    ELSE value

\* a variant of encode that keeps only the bits of the magnitude below the sign
\* bit
encode_sign_magnitude_masked(value, sign_bit) ==
    IF value < 0
    THEN BitOr(BitAnd(Abs(value), Pow2(sign_bit) - 1), Pow2(sign_bit))
    ELSE BitAnd(value, Pow2(sign_bit) - 1)

\* neither branch checks the range of value, and neither raises
encode_sign_magnitude(value, sign_bit) ==
    IF value < 0
    THEN BitOr(Abs(value), Pow2(sign_bit))
    ELSE value

\* a variant of decode that takes everything but the sign bit as the magnitude
decode_sign_magnitude_unmasked(value, sign_bit) ==
    LET sign_mask == Pow2(sign_bit)
        is_negative == BitAnd(value, sign_mask) # 0
        magnitude == IF is_negative THEN value - sign_mask ELSE value
    IN  IF is_negative THEN -magnitude ELSE magnitude

decode_sign_magnitude(value, sign_bit) ==
    LET sign_mask == Pow2(sign_bit)
        magnitude_mask == sign_mask - 1
        is_negative == BitAnd(value, sign_mask) # 0
        magnitude == BitAnd(value, magnitude_mask)
    IN  IF is_negative THEN -magnitude ELSE magnitude

SignBits == 0..MaxSignBit

\* signed inputs of the codec: every magnitude a register of MaxSignBit + 2 bits holds
CodecValues == -(Pow2(MaxSignBit + 2) - 1)..(Pow2(MaxSignBit + 2) - 1)

\* raw register values handed to decode
CodecRaws == 0..(Pow2(MaxSignBit + 2) - 1)

\* raised is the exception the evaluation ended with: encode and decode have no
\* raise statement and apply |, &, << and abs to integers only
CodecIdle ==
    [op |-> "none", sign_bit |-> 0, input |-> 0, encoded |-> 0, decoded |-> 0,
     raised |-> "none"]

\* decode(encode(v, b), b)
EncodeDecode ==
    \E b \in SignBits, v \in CodecValues :
        codec.op = "none" /\ codec' = [op |-> "encode_decode", sign_bit |-> b, input |-> v,
                  encoded |-> encode_sign_magnitude(v, b),
                  decoded |-> decode_sign_magnitude(encode_sign_magnitude(v, b), b),
                  raised |-> "none"]

\* encode(decode(raw, b), b)
DecodeEncode ==
    \E b \in SignBits, raw \in CodecRaws :
        codec.op = "none" /\ codec' = [op |-> "decode_encode", sign_bit |-> b, input |-> raw,
                  decoded |-> decode_sign_magnitude(raw, b),
                  encoded |-> encode_sign_magnitude(decode_sign_magnitude(raw, b), b),
                  raised |-> "none"]

\* the caller has the result
CodecReturn == codec.op # "none" /\ codec' = CodecIdle

---------------------------------------------------------------------------
(* The robot's actuators and cameras: LeKiwi.__init__                      *)

\* the bus's motors in the order of the motors dict, which is also the id order
Motors ==
    << "arm_shoulder_pan", "arm_shoulder_lift", "arm_elbow_flex", "arm_wrist_flex",
       "arm_wrist_roll", "arm_gripper",
       "base_left_wheel", "base_back_wheel", "base_right_wheel" >>

\* Motor(id, ...): the id given to each motor
MotorId(m) == CHOOSE i \in 1..Len(Motors) : Motors[i] = m

\* a name or keyword cut at its underscores: what startswith and "in" look at
Words(s) ==
    CASE s = "arm_shoulder_pan"  -> <<"arm", "shoulder", "pan">>
      [] s = "arm_shoulder_lift" -> <<"arm", "shoulder", "lift">>
      [] s = "arm_elbow_flex"    -> <<"arm", "elbow", "flex">>
      [] s = "arm_wrist_flex"    -> <<"arm", "wrist", "flex">>
      [] s = "arm_wrist_roll"    -> <<"arm", "wrist", "roll">>
      [] s = "arm_gripper"       -> <<"arm", "gripper">>
      [] s = "base_left_wheel"   -> <<"base", "left", "wheel">>
      [] s = "base_back_wheel"   -> <<"base", "back", "wheel">>
      [] s = "base_right_wheel"  -> <<"base", "right", "wheel">>
      [] s = "wrist_roll"        -> <<"wrist", "roll">>
      [] OTHER                   -> <<s>>

\* str.startswith(prefix), for a prefix of one word
StartsWith(s, prefix) == Words(s)[1] = prefix

\* keyword in s
Contains(s, keyword) ==
    LET w == Words(s)
        k == Words(keyword)
    IN  \E i \in 1..Len(w) :
            /\ i + Len(k) - 1 <= Len(w)
            /\ SubSeq(w, i, i + Len(k) - 1) = k

Range(seq) == {seq[i] : i \in 1..Len(seq)}

arm_motors == SelectSeq(Motors, LAMBDA m : StartsWith(m, "arm"))

base_motors == SelectSeq(Motors, LAMBDA m : StartsWith(m, "base"))

MotorSet == Range(Motors)

ArmSet == Range(arm_motors)

BaseSet == Range(base_motors)

\* config.cameras, in the order of the dict
Cameras == <<"front", "wrist">>

CameraSet == Range(Cameras)

---------------------------------------------------------------------------
(* Operations on the collaborators (bus, cameras, storage), as logged in   *)
(* trace.  data maps the motors the operation names to the value written   *)
(* or read; retry is num_retry (0 when the call passes none); cal is the   *)
(* record set of write_calibration and of the storage save.                *)

NoData == [m \in {} |-> 0]

Op(name, reg, data, retry, cal) ==
    [op |-> name, reg |-> reg, data |-> data, retry |-> retry, cal |-> cal]

\* an operation naming motors without values
OnMotors(name, motors) == Op(name, "", [m \in motors |-> 0], 0, NoData)

BusConnect == Op("bus.connect", "", NoData, 0, NoData)

\* bus.disconnect(disable_torque)
BusDisconnect(disable_torque) ==
    Op("bus.disconnect", IF disable_torque THEN "disable_torque" ELSE "keep_torque",
       NoData, 0, NoData)

DisableTorque(motors) == OnMotors("bus.disable_torque", motors)

EnableTorque(motors) == OnMotors("bus.enable_torque", motors)

ConfigureMotors == OnMotors("bus.configure_motors", MotorSet)

\* bus.write_calibration(cal); reg tells whether the bus keeps the records as its
\* bus.calibration (the bus is free to)
WriteCalibration(cal, cache) ==
    Op("bus.write_calibration", IF cache THEN "cache" ELSE "no_cache", NoData, 0, cal)

\* the bus.is_calibrated query of connect, with its answer
IsCalibrated(answer) ==
    Op("bus.is_calibrated", IF answer THEN "True" ELSE "False", NoData, 0, NoData)

\* bus.write(reg, name, value)
Write(reg, name, value) == Op("bus.write", reg, [m \in {name} |-> value], 0, NoData)

\* bus.sync_read(reg, names), with the values it returned
SyncRead(reg, values) == Op("bus.sync_read", reg, values, 0, NoData)

\* bus.sync_write(reg, values, num_retry)
SyncWrite(reg, values, retry) == Op("bus.sync_write", reg, values, retry, NoData)

\* bus.set_half_turn_homings(names), with the offsets it returned
SetHalfTurnHomings(offsets) == Op("bus.set_half_turn_homings", "", offsets, 0, NoData)

\* bus.record_ranges_of_motion(names), with the minima it returned in data and
\* the maxima in cal
RecordRanges(mins, maxes) == Op("bus.record_ranges_of_motion", "", mins, 0, maxes)

CamConnect(c) == Op("cam.connect", c, NoData, 0, NoData)

CamDisconnect(c) == Op("cam.disconnect", c, NoData, 0, NoData)

CamAsyncRead(c) == Op("cam.async_read", c, NoData, 0, NoData)

\* input(prompt): the call waits until the operator presses ENTER; it is logged
\* when it returns, or raises (end of input, an interrupt)
Input == Op("input", "", NoData, 0, NoData)

\* calibration_file.parent.mkdir(parents=True, exist_ok=True)
FileMkdir == Op("file.mkdir", "", NoData, 0, NoData)

\* open(calibration_file, "w") and json.dump, with what became of them:
\* "saved", "open_failed" (the file is as before) or "dump_failed" (the file was
\* truncated by open and holds no complete document)
FileWrite(cal, outcome) == Op("file.write", outcome, NoData, 0, cal)

\* the operations that exchange packets with the motors: all of the bus but connect
IsBusExchange(o) ==
    o.op \in {"bus.disconnect", "bus.disable_torque", "bus.enable_torque",
              "bus.configure_motors", "bus.write_calibration", "bus.write",
              "bus.is_calibrated",
              "bus.sync_read", "bus.sync_write", "bus.set_half_turn_homings",
              "bus.record_ranges_of_motion"}

---------------------------------------------------------------------------
(* Calibration records and the calibration file.                           *)

\* MotorCalibration(id, drive_mode, homing_offset, range_min, range_max)
MotorCalibration(id, drive_mode, homing_offset, range_min, range_max) ==
    [id |-> id, drive_mode |-> drive_mode, homing_offset |-> homing_offset,
     range_min |-> range_min, range_max |-> range_max]

\* a calibration as a file written by an earlier run holds it, over the motors given
StoredCalibration(motors) ==
    [m \in motors |-> MotorCalibration(MotorId(m), 0, 0, 0, 4095)]

\* config/calibration.json: absent, unreadable as a calibration, or a document
FileAbsent == [state |-> "absent", data |-> NoData]

FileCorrupt == [state |-> "corrupt", data |-> NoData]

FileOf(data) == [state |-> "document", data |-> data]

\* the files a run may start with: none, a broken one, an empty document, a
\* complete calibration, and a document that covers only the arm
StartFiles ==
    {FileAbsent, FileCorrupt, FileOf(NoData), FileOf(StoredCalibration(MotorSet)),
     FileOf(StoredCalibration(ArmSet))}

\* the keyword arguments MotorCalibration(**cal_data) accepts: its five fields
CalibrationFields == {"id", "drive_mode", "homing_offset", "range_min", "range_max"}

\* MotorCalibration(**cal_data) returns a record: cal_data has the five fields,
\* no fewer and no other
Buildable(cal_data) == DOMAIN cal_data = CalibrationFields

\* a variant of _load_calibration that leaves out the entries it cannot build
load_calibration_skipping_entries(file) ==
    IF file.state = "document"
    THEN [loaded |-> TRUE,
          records |-> [name \in {n \in DOMAIN file.data : Buildable(file.data[n])} |->
                          file.data[name]]]
    ELSE [loaded |-> FALSE, records |-> NoData]

\* _load_calibration: None when the file is absent, when open or json.load
\* raises, or when MotorCalibration(**cal_data) raises for an entry; else one
\* record for each entry of the document
load_calibration(file) ==
    IF file.state = "document" /\ \A name \in DOMAIN file.data : Buildable(file.data[name])
    THEN [loaded |-> TRUE,
          records |-> [name \in DOMAIN file.data |->
                          LET cal_data == file.data[name]
                          IN  MotorCalibration(cal_data.id, cal_data.drive_mode,
                                               cal_data.homing_offset, cal_data.range_min,
                                               cal_data.range_max)]]
    ELSE [loaded |-> FALSE, records |-> NoData]

\* bool(self.bus.calibration)
HasCalibration(bcal) == bcal.loaded /\ DOMAIN bcal.records # {}

---------------------------------------------------------------------------
(* Running a call's operations against the collaborators.                  *)

\* a bus session in which no calibration was written yet
NoSession == [calibrated |-> FALSE, established |-> FALSE]

\* the part of the state the collaborators hold
CurState ==
    [bus |-> bus_connected, cams |-> cam_connected, session |-> session,
     bcal |-> bus_calibration, file |-> calibration_file]

\* what an operation of the bus or of a camera that returned normally did to
\* what they report
BusEffect(o, st) ==
    CASE o.op = "bus.connect"    -> [st EXCEPT !.bus = TRUE]
      [] o.op = "bus.disconnect" -> [st EXCEPT !.bus = FALSE]
      [] o.op = "cam.connect"    -> [st EXCEPT !.cams[o.reg] = TRUE]
      [] o.op = "cam.disconnect" -> [st EXCEPT !.cams[o.reg] = FALSE]
      [] o.op = "bus.write_calibration" /\ o.reg = "cache" ->
            [st EXCEPT !.bcal = [loaded |-> TRUE, records |-> o.cal]]
      [] OTHER -> st

\* what the open and json.dump of _save_calibration did to the file: open(.., "w")
\* that fails leaves it, a dump that fails leaves it truncated
FileEffect(o, st) ==
    IF o.op = "file.write"
    THEN [st EXCEPT !.file = CASE o.reg = "saved"       -> FileOf(o.cal)
                               [] o.reg = "dump_failed" -> FileCorrupt
                               [] OTHER                 -> @]
    ELSE st

\* the history of the session: bus.connect opens a new one, write_calibration
\* marks it
SessionEffect(o, st) ==
    CASE o.op = "bus.connect"           -> [st EXCEPT !.session = NoSession]
      [] o.op = "bus.write_calibration" -> [st EXCEPT !.session.calibrated = TRUE]
      [] OTHER -> st

\* what an operation that returned normally did
Effect(o, st) == SessionEffect(o, FileEffect(o, BusEffect(o, st)))

\* a packet exchange raises whenever the bus is not open
MustRaise(o, st) == IsBusExchange(o) /\ ~st.bus

\* any other operation raises when the caller's failure choice names it; a
\* failed file.write is caught and logged by _save_calibration, so it never raises
MayRaise(o) == o.op # "file.write"

RECURSIVE StatesAfter(_, _, _)
\* the collaborators' state before ops[i] and after each of ops[i..], were none
\* of them to raise
StatesAfter(ops, i, st) ==
    IF i > Len(ops) THEN <<st>>
    ELSE <<st>> \o StatesAfter(ops, i + 1, Effect(ops[i], st))

\* ops with the states they run through and the first of them that must raise
\* (0: none)
Prepare(ops) ==
    LET states == StatesAfter(ops, 1, CurState)
        forced == {i \in 1..Len(ops) : MustRaise(ops[i], states[i])}
    IN  [ops |-> ops, states |-> states,
         forced |-> IF forced = {} THEN 0
                    ELSE CHOOSE i \in forced : \A j \in forced : i <= j]

\* the run of the prepared ops, after the operations already in before, when the
\* caller's failure choice is fail (0: no operation is made to fail): they are
\* issued in order until one raises; the result is [st, trace, ok]
Outcome(before, p, fail) ==
    LET chosen == IF fail # 0 /\ MayRaise(p.ops[fail]) THEN fail ELSE 0
        k == IF chosen = 0 THEN p.forced
             ELSE IF p.forced = 0 THEN chosen
             ELSE IF p.forced < chosen THEN p.forced ELSE chosen
    IN  IF k = 0
        THEN [st |-> p.states[Len(p.ops) + 1], trace |-> before \o p.ops, ok |-> TRUE]
        ELSE [st |-> p.states[k], trace |-> before \o SubSeq(p.ops, 1, k), ok |-> FALSE]

\* every way the run of ops can go
Runs(before, ops) ==
    LET p == Prepare(ops)
    IN  {Outcome(before, p, fail) : fail \in 0..Len(ops)}

\* the collaborators' state after a run
Commit(r) ==
    /\ bus_connected' = r.st.bus
    /\ cam_connected' = r.st.cams
    /\ session' = r.st.session
    /\ bus_calibration' = r.st.bcal
    /\ calibration_file' = r.st.file
    /\ trace' = r.trace

\* the call record: the call's name and inputs, what it returned, how it ended
Call(name, was_connected, calibrate, action, returned, result) ==
    [name |-> name, was_connected |-> was_connected, calibrate |-> calibrate,
     action |-> action, returned |-> returned, result |-> result]

NoCall == Call("none", FALSE, FALSE, NoData, NoData, "ok")

\* a variant of is_connected that asks the bus alone
is_connected_bus_only == bus_connected

\* is_connected: the bus and every configured camera report connected
is_connected ==
    bus_connected /\ \A i \in 1..Len(Cameras) : cam_connected[Cameras[i]]

\* a call that raises before it touches any collaborator
Refuse(name, calibrate, action, result) ==
    /\ call' = Call(name, is_connected, calibrate, action, NoData, result)
    /\ trace' = <<>>
    /\ pc' = "done"
    /\ UNCHANGED <<bus_connected, cam_connected, session, bus_calibration,
                   calibration_file>>

\* the run r ended the call name: a connect() that returns normally has
\* established the session it opened
Establish(name, r) ==
    IF name = "connect" /\ r.ok THEN [r EXCEPT !.st.session.established = TRUE] ELSE r

\* a call that issues ops from the start of its trace and returns or raises
Perform(name, calibrate, action, returned, ops) ==
    \E r \in Runs(<<>>, ops) :
        /\ Commit(Establish(name, r))
        /\ call' = Call(name, is_connected, calibrate, action,
                        IF r.ok THEN returned ELSE NoData,
                        IF r.ok THEN "ok" ELSE "raised")
        /\ pc' = "done"

\* the caller has the outcome of the call; the robot is ready for the next call
Return ==
    /\ pc = "done"
    /\ pc' = "idle"
    /\ call' = NoCall
    /\ trace' = <<>>
    /\ UNCHANGED <<bus_connected, cam_connected, session, bus_calibration,
                   calibration_file>>

---------------------------------------------------------------------------
(* Kinematics: _degps_to_raw, _body_to_wheel_raw, _wheel_raw_to_body.       *)
(* The model is in fixed point.  Linear velocities are in cm/s, theta in   *)
(* degrees/s.  A wheel speed is a fraction num/den of raw steps per second *)
(* (degrees/second times 4096/360).                                        *)

\* Python's round(): to the nearest integer, a tie to the even one (den > 0)
RoundHalfEven(num, den) ==
    LET q == num \div den
        r == num % den
    IN  IF 2 * r < den THEN q
        ELSE IF 2 * r > den THEN q + 1
        ELSE IF q % 2 = 0 THEN q ELSE q + 1

\* a variant of _degps_to_raw that cuts the fraction off instead of rounding
degps_to_raw_truncating(num, den) ==
    LET speed_int == IF num >= 0 THEN num \div den ELSE -((-num) \div den)
    IN  IF speed_int > 32767 THEN 32767
        ELSE IF speed_int < -32768 THEN -32768
        ELSE speed_int

\* _degps_to_raw: round, then cap to the signed 16-bit range
degps_to_raw(num, den) ==
    LET speed_int == RoundHalfEven(num, den)
    IN  IF speed_int > 32767 THEN 32767
        ELSE IF speed_int < -32768 THEN -32768
        ELSE speed_int

\* the rows [cos(a), sin(a)] of m for the wheels left, back, right (angles 150,
\* -90 and 30 degrees), each times (1/wheel_radius) * (180/pi) * (4096/360) / 100
\* (raw steps per cm/s), times 10 and rounded
WheelRows == << <<-1129, 652>>, <<0, -1304>>, <<1129, 652>> >>

\* the denominator of the wheel speeds: 10 for WheelRows times 9 for the theta
\* term, base_radius / wheel_radius * 4096 / 360 = 256 / 9 raw steps per degree/s
WheelDen == 90

\* max_raw, the default cap of _body_to_wheel_raw
max_raw == 3000

\* wheel_degps of _body_to_wheel_raw before any scaling, as the numerators of
\* the raw speeds of the wheels left, back, right over WheelDen
wheel_degps(x, y, theta) ==
    [i \in 1..3 |-> 9 * (WheelRows[i][1] * x + WheelRows[i][2] * y) + 2560 * theta]

\* a variant of _body_to_wheel_raw without the scaling
body_to_wheel_raw_unscaled(x, y, theta) ==
    LET num(i) == wheel_degps(x, y, theta)[i]
    IN  [m \in BaseSet |->
            CASE m = "base_left_wheel"  -> degps_to_raw(num(1), WheelDen)
              [] m = "base_back_wheel"  -> degps_to_raw(num(2), WheelDen)
              [] m = "base_right_wheel" -> degps_to_raw(num(3), WheelDen)]

\* a variant of _body_to_wheel_raw that cuts each wheel off at max_raw by itself
body_to_wheel_raw_clipping_each(x, y, theta) ==
    LET num(i) == wheel_degps(x, y, theta)[i]
        clipped(raw) == IF raw > max_raw THEN max_raw
                        ELSE IF raw < -max_raw THEN -max_raw ELSE raw
    IN  [m \in BaseSet |->
            CASE m = "base_left_wheel"  -> clipped(degps_to_raw(num(1), WheelDen))
              [] m = "base_back_wheel"  -> clipped(degps_to_raw(num(2), WheelDen))
              [] m = "base_right_wheel" -> clipped(degps_to_raw(num(3), WheelDen))]

\* _body_to_wheel_raw(x, y, theta): the raw command of each wheel
body_to_wheel_raw(x, y, theta) ==
    LET num(i) == wheel_degps(x, y, theta)[i]
        a1 == Abs(num(1))
        a2 == Abs(num(2))
        a3 == Abs(num(3))
        a12 == IF a1 > a2 THEN a1 ELSE a2
        max_raw_computed == IF a12 > a3 THEN a12 ELSE a3
        saturated == max_raw_computed > max_raw * WheelDen
        wheel_raw(i) == IF saturated
                        THEN degps_to_raw(num(i) * max_raw, max_raw_computed)
                        ELSE degps_to_raw(num(i), WheelDen)
    IN  [m \in BaseSet |->
            CASE m = "base_left_wheel"  -> wheel_raw(1)
              [] m = "base_back_wheel"  -> wheel_raw(2)
              [] m = "base_right_wheel" -> wheel_raw(3)]

\* _wheel_raw_to_body: x.vel and y.vel in 1e-9 m/s, theta.vel in 1/256 degree/s.
\* With the inverse of m: x = (right - left) / sqrt(3), y = (left + right -
\* 2 back) / 3, theta = (left + back + right) / (3 base_radius), on linear wheel
\* speeds of raw * pi * wheel_radius / 2048 m/s.
wheel_raw_to_body(left, back, right) ==
    [k \in {<<"x", "vel">>, <<"y", "vel">>, <<"theta", "vel">>} |->
        CASE k[1] = "x"     -> 44282 * (right - left)
          [] k[1] = "y"     -> 25566 * (left + right - 2 * back)
          [] k[1] = "theta" -> 3 * (left + back + right)]

---------------------------------------------------------------------------
(* The safety clamp of send_action.                                        *)

\* max_relative_target: None, one number, or a number per motor named
NoLimit == [kind |-> "none", scalar |-> 0, dict |-> NoData]

ScalarLimit(n) == [kind |-> "scalar", scalar |-> n, dict |-> NoData]

DictLimit(d) == [kind |-> "dict", scalar |-> 0, dict |-> d]

\* a variant of the clamp that always steps upward
clamp_goal_ignoring_sign(mrt, motor_name, g_pos, p_pos) ==
    IF mrt.kind = "dict" /\ motor_name \notin DOMAIN mrt.dict
    THEN g_pos
    ELSE LET max_rel == IF mrt.kind = "dict" THEN mrt.dict[motor_name] ELSE mrt.scalar
         IN  IF Abs(g_pos - p_pos) > max_rel
             THEN p_pos + max_rel
             ELSE g_pos

\* one turn of the loop of send_action: the goal kept for motor_name.  A dict
\* without the motor gives float("inf"), which no distance exceeds.
clamp_goal(mrt, motor_name, g_pos, p_pos) ==
    IF mrt.kind = "dict" /\ motor_name \notin DOMAIN mrt.dict
    THEN g_pos
    ELSE LET max_rel == IF mrt.kind = "dict" THEN mrt.dict[motor_name] ELSE mrt.scalar
         IN  IF Abs(g_pos - p_pos) > max_rel
             THEN p_pos + Sign(g_pos - p_pos) * max_rel
             ELSE g_pos

\* the keys of an action: <<name, "pos">> stands for "name.pos", <<axis, "vel">>
\* for "axis.vel"
PosKeys(action) == {k \in DOMAIN action : k[2] = "pos"}

VelKeys(action) == {k \in DOMAIN action : k[2] = "vel"}

BodyKeys == {<<"x", "vel">>, <<"y", "vel">>, <<"theta", "vel">>}

\* a variant of the clamp loop that clamps against positions kept from an
\* earlier call (every joint at 0) instead of the read it was given
clamped_goal_pos_from_cache(mrt, action, present_pos) ==
    [k \in PosKeys(action) |->
        IF mrt.kind = "none" THEN action[k]
        ELSE clamp_goal(mrt, k[1], action[k], 0)]

\* arm_goal_pos after the clamp loop
clamped_goal_pos(mrt, action, present_pos) ==
    [k \in PosKeys(action) |->
        IF mrt.kind = "none" THEN action[k]
        ELSE clamp_goal(mrt, k[1], action[k], present_pos[k[1]])]

\* k.replace(".pos", "") on every key
strip_pos(goal_pos) ==
    [m \in {k[1] : k \in DOMAIN goal_pos} |-> goal_pos[<<m, "pos">>]]

---------------------------------------------------------------------------
(* The robot's calls: connect, configure, calibrate, get_observation,      *)
(* send_action, stop_base, disconnect.  Each is the change of the robot's  *)
(* state (all of robot_vars but config) by one call or, for calibrate, by  *)
(* one stretch of the call between two waits for the operator.             *)

RECURSIVE arm_configure_ops(_)
\* configure: the four writes of each arm motor
arm_configure_ops(names) ==
    IF names = <<>> THEN <<>>
    ELSE << Write("Operating_Mode", Head(names), "POSITION"),
            Write("P_Coefficient", Head(names), 16),
            Write("I_Coefficient", Head(names), 0),
            Write("D_Coefficient", Head(names), 32) >>
         \o arm_configure_ops(Tail(names))

\* a variant of configure that enables the torque before it sets the mode of
\* the base motors
configure_ops_enabling_early ==
    <<DisableTorque(MotorSet), ConfigureMotors>>
    \o arm_configure_ops(arm_motors)
    \o <<EnableTorque(MotorSet)>>
    \o [i \in 1..Len(base_motors) |-> Write("Operating_Mode", base_motors[i], "VELOCITY")]

\* configure()
configure_ops ==
    <<DisableTorque(MotorSet), ConfigureMotors>>
    \o arm_configure_ops(arm_motors)
    \o [i \in 1..Len(base_motors) |-> Write("Operating_Mode", base_motors[i], "VELOCITY")]
    \o <<EnableTorque(MotorSet)>>

\* connect, from the camera loop on
connect_tail_ops ==
    [i \in 1..Len(Cameras) |-> CamConnect(Cameras[i])] \o configure_ops

\* a variant of the beginning of calibrate that sets the mode before it
\* disables the torque
calibrate_begin_ops_mode_first ==
    [i \in 1..Len(arm_motors) |-> Write("Operating_Mode", arm_motors[i], "POSITION")]
    \o <<DisableTorque(ArmSet)>>

\* calibrate, up to the first input()
calibrate_begin_ops ==
    <<DisableTorque(ArmSet)>>
    \o [i \in 1..Len(arm_motors) |-> Write("Operating_Mode", arm_motors[i], "POSITION")]

\* a variant of full_turn_motor that matches "wrist" instead of "wrist_roll"
full_turn_motor_by_wrist ==
    {m \in MotorSet : Contains(m, "wheel") \/ Contains(m, "wrist")}

\* full_turn_motor of calibrate
full_turn_motor ==
    {m \in MotorSet : Contains(m, "wheel") \/ Contains(m, "wrist_roll")}

\* unknown_range_motors of calibrate
unknown_range_motors == MotorSet \ full_turn_motor

\* a variant of the record loop that keeps an offset the bus reported for a
\* base motor
build_calibration_keeping_reported_offsets(offsets, mins, maxes) ==
    [name \in MotorSet |->
        MotorCalibration(MotorId(name), 0,
                         IF name \in DOMAIN offsets THEN offsets[name] ELSE 0,
                         IF name \in full_turn_motor THEN 0 ELSE mins[name],
                         IF name \in full_turn_motor THEN 4095 ELSE maxes[name])]

\* a variant of the record loop that goes over the arm motors only
build_calibration_arm_only(offsets, mins, maxes) ==
    [name \in ArmSet |->
        MotorCalibration(MotorId(name), 0, offsets[name],
                         IF name \in full_turn_motor THEN 0 ELSE mins[name],
                         IF name \in full_turn_motor THEN 4095 ELSE maxes[name])]

\* the calibration dict calibrate builds from the captured offsets and the
\* recorded ranges
build_calibration(offsets, mins, maxes) ==
    LET homing_offsets == [m \in DOMAIN offsets \cup BaseSet |->
                              IF m \in BaseSet THEN 0 ELSE offsets[m]]
        range_mins == [m \in DOMAIN mins \cup full_turn_motor |->
                          IF m \in full_turn_motor THEN 0 ELSE mins[m]]
        range_maxes == [m \in DOMAIN maxes \cup full_turn_motor |->
                           IF m \in full_turn_motor THEN 4095 ELSE maxes[m]]
    IN  [name \in MotorSet |->
            MotorCalibration(MotorId(name), 0, homing_offsets[name],
                             range_mins[name], range_maxes[name])]

\* a call that goes on to wait for the operator, or raised before it got there
Proceed(name, calibrate, r, waiting) ==
    /\ Commit(r)
    /\ call' = Call(name, IF pc = "idle" THEN is_connected ELSE call.was_connected,
                    calibrate, NoData, NoData, IF r.ok THEN "running" ELSE "raised")
    /\ pc' = IF r.ok THEN waiting ELSE "done"

\* a variant of the head of connect that does not write the loaded calibration
connect_head_ops_without_write(answer) ==
    IF HasCalibration(bus_calibration)
    THEN << BusConnect, DisableTorque(MotorSet), EnableTorque(MotorSet) >>
    ELSE << BusConnect, IsCalibrated(answer) >>

\* a variant of the head of connect that writes the loaded calibration while
\* the torque is still on
connect_head_ops_write_under_torque(answer) ==
    IF HasCalibration(bus_calibration)
    THEN << BusConnect, WriteCalibration(bus_calibration.records, FALSE),
            DisableTorque(MotorSet), EnableTorque(MotorSet) >>
    ELSE << BusConnect, IsCalibrated(answer) >>

\* connect, up to the decision to calibrate: the bus is opened and a loaded
\* calibration is written; without one the motors are asked (the and of the
\* condition reads is_calibrated before it looks at the calibrate flag)
connect_head_ops(answer) ==
    IF HasCalibration(bus_calibration)
    THEN << BusConnect, DisableTorque(MotorSet),
            WriteCalibration(bus_calibration.records, FALSE),
            EnableTorque(MotorSet) >>
    ELSE << BusConnect, IsCalibrated(answer) >>

\* a variant of connect that calibrates whenever the motors report
\* uncalibrated, whatever the flag
Connect_whenever_uncalibrated(calibrate, answer) ==
    /\ pc = "idle"
    /\ IF is_connected
       THEN Refuse("connect", calibrate, NoData, "AlreadyConnected")
       ELSE LET calibration_from_file == HasCalibration(bus_calibration)
                head == connect_head_ops(answer)
            IN  IF ~calibration_from_file /\ ~answer
                THEN \E r \in Runs(<<>>, head \o calibrate_begin_ops) :
                        Proceed("connect", calibrate, r, "await_homing")
                ELSE Perform("connect", calibrate, NoData, NoData,
                             head \o connect_tail_ops)

\* connect(calibrate); answer is what bus.is_calibrated reports
Connect(calibrate, answer) ==
    /\ pc = "idle"
    /\ IF is_connected
       THEN Refuse("connect", calibrate, NoData, "AlreadyConnected")
       ELSE LET calibration_from_file == HasCalibration(bus_calibration)
                head == connect_head_ops(answer)
            IN  IF ~calibration_from_file /\ ~answer /\ calibrate
                THEN \E r \in Runs(<<>>, head \o calibrate_begin_ops) :
                        Proceed("connect", calibrate, r, "await_homing")
                ELSE Perform("connect", calibrate, NoData, NoData,
                             head \o connect_tail_ops)

\* calibrate(), called on its own, up to the first input()
Calibrate ==
    /\ pc = "idle"
    /\ \E r \in Runs(<<>>, calibrate_begin_ops) :
          Proceed("calibrate", FALSE, r, "await_homing")

\* input() raises (end of input, or an interrupt) instead of returning
CalibrateInterrupted ==
    /\ pc = "await_homing"
    /\ call' = [call EXCEPT !.result = "raised"]
    /\ pc' = "done"
    /\ trace' = Append(trace, Input)
    /\ UNCHANGED <<bus_connected, cam_connected, session, bus_calibration,
                   calibration_file>>

\* the operator presses ENTER: the offsets are captured and recording starts
CalibrateHoming(offsets) ==
    /\ pc = "await_homing"
    /\ \E r \in Runs(Append(trace, Input), <<SetHalfTurnHomings(offsets)>>) :
          Proceed(call.name, call.calibrate, r, "recording")

\* a variant of the end of calibrate that saves the records before it writes
\* them to the bus
CalibrateFinish_save_first(mins, maxes, cache, outcome) ==
    /\ pc = "recording"
    /\ LET homing_offsets == trace[Len(trace)].data
           calibration == build_calibration(homing_offsets, mins, maxes)
           ops == << RecordRanges(mins, maxes), FileMkdir, FileWrite(calibration, outcome),
                     WriteCalibration(calibration, cache) >>
                  \o (IF call.name = "connect" THEN connect_tail_ops ELSE <<>>)
       IN  \E r \in Runs(trace, ops) :
                  /\ Commit(Establish(call.name, r))
                  /\ call' = [call EXCEPT !.result = IF r.ok THEN "ok" ELSE "raised"]
                  /\ pc' = "done"

\* the operator presses ENTER again: recording returns, the records are built,
\* written to the bus and saved; a connect then goes on with the cameras
CalibrateFinish(mins, maxes, cache, outcome) ==
    /\ pc = "recording"
    /\ LET homing_offsets == trace[Len(trace)].data
           calibration == build_calibration(homing_offsets, mins, maxes)
           ops == << RecordRanges(mins, maxes), WriteCalibration(calibration, cache),
                     FileMkdir, FileWrite(calibration, outcome) >>
                  \o (IF call.name = "connect" THEN connect_tail_ops ELSE <<>>)
       IN  \E r \in Runs(trace, ops) :
                  /\ Commit(Establish(call.name, r))
                  /\ call' = [call EXCEPT !.result = IF r.ok THEN "ok" ELSE "raised"]
                  /\ pc' = "done"

\* a variant of stop_base that writes without retry
stop_base_ops_no_retry ==
    << SyncWrite("Goal_Velocity", [m \in BaseSet |-> 0], 0) >>

\* stop_base()
stop_base_ops ==
    << SyncWrite("Goal_Velocity", [m \in BaseSet |-> 0], 5) >>

StopBase ==
    /\ pc = "idle"
    /\ Perform("stop_base", FALSE, NoData, NoData, stop_base_ops)

\* a variant of disconnect that closes the cameras before the bus
disconnect_ops_bus_last ==
    stop_base_ops
    \o [i \in 1..Len(Cameras) |-> CamDisconnect(Cameras[i])]
    \o <<BusDisconnect(config.disable_torque_on_disconnect)>>

\* disconnect()
disconnect_ops ==
    stop_base_ops
    \o <<BusDisconnect(config.disable_torque_on_disconnect)>>
    \o [i \in 1..Len(Cameras) |-> CamDisconnect(Cameras[i])]

\* a variant of disconnect without the is_connected test
DisconnectUnchecked ==
    /\ pc = "idle"
    /\ Perform("disconnect", FALSE, NoData, NoData, disconnect_ops)

\* a variant of disconnect that asks the bus alone whether it is connected
Disconnect_when_bus_connected ==
    /\ pc = "idle"
    /\ IF ~bus_connected
       THEN Refuse("disconnect", FALSE, NoData, "NotConnected")
       ELSE Perform("disconnect", FALSE, NoData, NoData, disconnect_ops)

\* disconnect()
Disconnect ==
    /\ pc = "idle"
    /\ IF ~is_connected
       THEN Refuse("disconnect", FALSE, NoData, "NotConnected")
       ELSE Perform("disconnect", FALSE, NoData, NoData, disconnect_ops)

\* a variant of the map without the frames of the cameras
observation_without_frames(arm_pos, base_wheel_vel) ==
    [k \in {<<m, "pos">> : m \in DOMAIN arm_pos} |-> arm_pos[k[1]]]
    @@ wheel_raw_to_body(base_wheel_vel["base_left_wheel"],
                         base_wheel_vel["base_back_wheel"],
                         base_wheel_vel["base_right_wheel"])

\* the map get_observation returns: arm positions, body velocity, and the
\* frame of each camera under the camera's name (a key without suffix)
observation(arm_pos, base_wheel_vel) ==
    [k \in {<<m, "pos">> : m \in DOMAIN arm_pos} |-> arm_pos[k[1]]]
    @@ wheel_raw_to_body(base_wheel_vel["base_left_wheel"],
                         base_wheel_vel["base_back_wheel"],
                         base_wheel_vel["base_right_wheel"])
    @@ [k \in {<<c, "">> : c \in CameraSet} |-> 0]

\* _load_calibration(), called on the robot: it reads the file and touches
\* nothing else; every exception of the read is caught inside it
LoadCalibration ==
    /\ pc = "idle"
    /\ call' = Call("_load_calibration", is_connected, FALSE, NoData,
                    load_calibration(calibration_file), "ok")
    /\ trace' = <<>>
    /\ pc' = "done"
    /\ UNCHANGED <<bus_connected, cam_connected, session, bus_calibration,
                   calibration_file>>

\* get_observation(); arm_pos and base_wheel_vel are what the bus reads
GetObservation(arm_pos, base_wheel_vel) ==
    /\ pc = "idle"
    /\ IF ~is_connected
       THEN Refuse("get_observation", FALSE, NoData, "NotConnected")
       ELSE LET ops == << SyncRead("Present_Position", arm_pos),
                          SyncRead("Present_Velocity", base_wheel_vel) >>
                       \o [i \in 1..Len(Cameras) |-> CamAsyncRead(Cameras[i])]
            IN  Perform("get_observation", FALSE, NoData,
                        observation(arm_pos, base_wheel_vel), ops)

\* a variant of the return value: the action as it was requested
sent_action_as_requested(arm_goal_pos, action) ==
    [k \in DOMAIN action |-> action[k]]

\* a variant of the return value that reports the body velocity of the wheel
\* commands written (in the units of _wheel_raw_to_body)
sent_action_as_written(arm_goal_pos, action) ==
    LET w == body_to_wheel_raw(action[<<"x", "vel">>], action[<<"y", "vel">>],
                               action[<<"theta", "vel">>])
    IN  arm_goal_pos @@ wheel_raw_to_body(w["base_left_wheel"], w["base_back_wheel"],
                                          w["base_right_wheel"])

\* what send_action returns
sent_action(arm_goal_pos, action) ==
    arm_goal_pos @@ [k \in VelKeys(action) |-> action[k]]

\* a variant of send_action that reads the present positions whether or not a
\* limit is configured
send_action_ops_always_reading(mrt, action, present_pos) ==
    LET base_wheel_goal_vel ==
            body_to_wheel_raw(action[<<"x", "vel">>], action[<<"y", "vel">>],
                              action[<<"theta", "vel">>])
        arm_goal_pos == clamped_goal_pos(mrt, action, present_pos)
    IN  << SyncRead("Present_Position", present_pos),
           SyncWrite("Goal_Position", strip_pos(arm_goal_pos), 0),
           SyncWrite("Goal_Velocity", base_wheel_goal_vel, 0) >>

\* the bus operations of send_action
send_action_ops(mrt, action, present_pos) ==
    LET base_wheel_goal_vel ==
            body_to_wheel_raw(action[<<"x", "vel">>], action[<<"y", "vel">>],
                              action[<<"theta", "vel">>])
        arm_goal_pos == clamped_goal_pos(mrt, action, present_pos)
    IN  (IF mrt.kind # "none"
         THEN <<SyncRead("Present_Position", present_pos)>>
         ELSE <<>>)
        \o << SyncWrite("Goal_Position", strip_pos(arm_goal_pos), 0),
              SyncWrite("Goal_Velocity", base_wheel_goal_vel, 0) >>

\* send_action(action); present_pos is what the bus reads as Present_Position.
\* A missing velocity key raises KeyError before the bus is touched; with a limit
\* configured, a position key of a motor that was not read raises it in the clamp
\* loop, after the read and before any write.
SendAction(action, present_pos) ==
    /\ pc = "idle"
    /\ IF ~is_connected
       THEN Refuse("send_action", FALSE, action, "NotConnected")
       ELSE IF ~(BodyKeys \subseteq DOMAIN action)
       THEN Refuse("send_action", FALSE, action, "KeyError")
       ELSE LET mrt == config.max_relative_target
            IN  IF mrt.kind # "none"
                   /\ \E k \in PosKeys(action) : k[1] \notin DOMAIN present_pos
                THEN \E r \in Runs(<<>>, <<SyncRead("Present_Position", present_pos)>>) :
                        /\ Commit(r)
                        /\ call' = Call("send_action", is_connected, FALSE, action, NoData,
                                        IF r.ok THEN "KeyError" ELSE "raised")
                        /\ pc' = "done"
                ELSE Perform("send_action", FALSE, action,
                             sent_action(clamped_goal_pos(mrt, action, present_pos), action),
                             send_action_ops(mrt, action, present_pos))

---------------------------------------------------------------------------
(* Inputs.                                                                 *)

Positions == -MaxPos..MaxPos

\* max_relative_target is a float the configuration does not validate
Limits == -MaxLimit..MaxLimit

\* the velocity entries of an action: x and y in cm/s, theta in degrees/s
BodyVelocity(x, y, theta) ==
    [k \in BodyKeys |-> CASE k[1] = "x" -> x [] k[1] = "y" -> y [] k[1] = "theta" -> theta]

\* the position entries of an action: a goal for each motor of D
PosGoals(D) ==
    {[k \in {<<m, "pos">> : m \in D} |-> g[k[1]]] : g \in [D -> Positions]}

\* a standstill, and a motion whose wheel commands exceed max_raw
BodyVelocities == {BodyVelocity(0, 0, 0), BodyVelocity(40, 0, 90)}

\* the motors the actions of SpecAction have goals for: the two the per-motor
\* limits of LimitConfigs name
GoalMotors == {"arm_shoulder_pan", "arm_gripper"}

\* the actions of SpecAction: goals for at most MaxKeys of GoalMotors and a
\* velocity, and one action with a position key of a motor that is not an arm motor
ActionInputs ==
    {p @@ v : p \in UNION {PosGoals(D) : D \in {E \in SUBSET GoalMotors : Cardinality(E) <= MaxKeys}},
              v \in BodyVelocities}
    \cup {[k \in {<<"base_left_wheel", "pos">>} |-> 0] @@ BodyVelocity(0, 0, 0)}

\* what the bus may read as Present_Position for an action: any position for a
\* motor the action has a goal for; the clamp loop looks at no other reading, and
\* those are fixed at 0
PresentInputs(action) ==
    {[m \in ArmSet |-> IF <<m, "pos">> \in DOMAIN action THEN q[m] ELSE 0] :
        q \in [{k[1] : k \in PosKeys(action)} -> Positions]}

\* the actions of Spec: the shape the request handlers send (all six goals and
\* the three velocities), a velocity alone, and an action without velocities
LifecycleActions ==
    { [k \in {<<m, "pos">> : m \in ArmSet} |-> MaxPos] @@ BodyVelocity(10, 0, 0),
      BodyVelocity(0, 0, 0),
      [k \in {<<"arm_gripper", "pos">>} |-> 0] }

\* the readings of Spec
LifecyclePresent == [m \in ArmSet |-> -MaxPos]

LifecycleWheelVel ==
    [m \in BaseSet |-> CASE m = "base_left_wheel"  -> -1129
                         [] m = "base_back_wheel"  -> 0
                         [] m = "base_right_wheel" -> 1129]

\* the limit configurations: none, a scalar, a dict with no entry or with one
\* entry for one of two arm motors
LimitConfigs ==
    {NoLimit} \cup {ScalarLimit(n) : n \in Limits}
    \cup {DictLimit(NoData)}
    \cup {DictLimit([m \in {k} |-> n]) : k \in GoalMotors, n \in Limits}

\* what calibrate may capture and record, by a seed; every motor gets values of
\* its own, and a width of 0 is a joint the operator did not move
\* The capture is of arm_motors; one more entry, for a base motor, is a bus that
\* reports more than it was asked
HomingInputs ==
    {[m \in ArmSet \cup more |-> h * MotorId(m)] :
        h \in {-10, 10}, more \in {{}, {"base_left_wheel"}}}

\* the smallest and the largest of the positions sampled for a motor
running_min(samples) ==
    CHOOSE p \in Range(samples) : \A q \in Range(samples) : p <= q

running_max(samples) ==
    CHOOSE p \in Range(samples) : \A q \in Range(samples) : p >= q

\* bus.record_ranges_of_motion(names): the running minimum and maximum of the
\* raw positions sampled for each motor until the operator stops the recording
record_ranges_of_motion(samples) ==
    << [m \in DOMAIN samples |-> running_min(samples[m])],
       [m \in DOMAIN samples |-> running_max(samples[m])] >>

\* the positions sampled during a recording: each joint is swept over a width
\* of 1000 raw ticks (w = 1) or is not moved, so that every sample of it is the
\* same (w = 0).  The recording is of unknown_range_motors; one more entry, for
\* a full-turn motor, is a bus that reports more than it was asked
SampleInputs ==
    {[m \in unknown_range_motors \cup more |->
         << 100 * MotorId(m) + lo + 500 * w, 100 * MotorId(m) + lo,
            100 * MotorId(m) + lo + 1000 * w >>] :
        lo \in {0, 7}, w \in {0, 1}, more \in {{}, {"arm_wrist_roll"}}}

\* what the recordings of SampleInputs return
RecordingInputs == {record_ranges_of_motion(samples) : samples \in SampleInputs}

---------------------------------------------------------------------------
(* Specifications.                                                         *)

\* no request handler is running
NoTask == [handler |-> "none", state |-> "none", step |-> 0, status |-> 0, success |-> FALSE]

\* the state after LeKiwi(config): nothing is connected
InitWith(limits, files) ==
    /\ config \in [max_relative_target : limits, disable_torque_on_disconnect : BOOLEAN]
    /\ calibration_file \in files
    /\ bus_calibration = load_calibration(calibration_file)
    /\ bus_connected = FALSE
    /\ cam_connected = [c \in CameraSet |-> FALSE]
    /\ session = NoSession
    /\ pc = "idle"
    /\ call = NoCall
    /\ trace = <<>>
    /\ codec = CodecIdle
    /\ loop_task = NoTask
    /\ streams = <<>>

Init == InitWith({NoLimit, ScalarLimit(MaxLimit)}, StartFiles)

\* a step of the robot object: nothing else changes
Robot(step) == step /\ UNCHANGED <<config, codec, loop_task, streams>>

\* the capture and the recording of Spec
LifecycleHoming == [m \in ArmSet |-> 10 * MotorId(m)]

LifecycleRecording ==
    << [m \in unknown_range_motors |-> 100 * MotorId(m)],
       [m \in unknown_range_motors |-> 100 * MotorId(m) + 1000] >>

Next ==
    \/ Robot(\E calibrate \in BOOLEAN, answer \in BOOLEAN : Connect(calibrate, answer))
    \/ Robot(Calibrate)
    \/ Robot(CalibrateInterrupted)
    \/ Robot(CalibrateHoming(LifecycleHoming))
    \/ Robot(\E cache \in BOOLEAN, outcome \in {"saved", "open_failed", "dump_failed"} :
                CalibrateFinish(LifecycleRecording[1], LifecycleRecording[2], cache, outcome))
    \/ Robot(StopBase)
    \/ Robot(Disconnect)
    \/ Robot(GetObservation(LifecyclePresent, LifecycleWheelVel))
    \/ Robot(\E action \in LifecycleActions : SendAction(action, LifecyclePresent))
    \/ Robot(Return)

Spec == Init /\ [][Next]_vars

\* send_action alone, on the robot as connect(calibrate=False) has left it when
\* the calibration file holds a complete calibration
InitAction ==
    /\ config \in [max_relative_target : LimitConfigs, disable_torque_on_disconnect : {TRUE}]
    /\ calibration_file = FileOf(StoredCalibration(MotorSet))
    /\ bus_calibration = load_calibration(calibration_file)
    /\ bus_connected = TRUE
    /\ cam_connected = [c \in CameraSet |-> TRUE]
    /\ session = [calibrated |-> TRUE, established |-> TRUE]
    /\ pc = "idle"
    /\ call = NoCall
    /\ trace = <<>>
    /\ codec = CodecIdle
    /\ loop_task = NoTask
    /\ streams = <<>>

NextAction ==
    \/ Robot(/\ pc = "idle"
             /\ \E action \in ActionInputs : \E present_pos \in PresentInputs(action) :
                   SendAction(action, present_pos))
    \/ Robot(Return)

SpecAction == InitAction /\ [][NextAction]_vars

\* calibrate() alone, over every capture and recording of HomingInputs and
\* RecordingInputs, on the robot as connect(calibrate=False) has left it when
\* there was no calibration file
InitCal ==
    /\ config = [max_relative_target |-> NoLimit, disable_torque_on_disconnect |-> TRUE]
    /\ calibration_file = FileAbsent
    /\ bus_calibration = load_calibration(calibration_file)
    /\ bus_connected = TRUE
    /\ cam_connected = [c \in CameraSet |-> TRUE]
    /\ session = [calibrated |-> FALSE, established |-> TRUE]
    /\ pc = "idle"
    /\ call = NoCall
    /\ trace = <<>>
    /\ codec = CodecIdle
    /\ loop_task = NoTask
    /\ streams = <<>>

NextCal ==
    \/ Robot(Calibrate)
    \/ Robot(CalibrateInterrupted)
    \/ Robot(\E offsets \in HomingInputs : CalibrateHoming(offsets))
    \/ Robot(\E rec \in RecordingInputs, cache \in BOOLEAN,
                 outcome \in {"saved", "open_failed", "dump_failed"} :
                CalibrateFinish(rec[1], rec[2], cache, outcome))
    \/ Robot(Return)

SpecCal == InitCal /\ [][NextCal]_vars

\* the entries a calibration file may hold for a motor: a complete one, one
\* without range_max, one with a field MotorCalibration does not have
EntryInputs(m) ==
    { MotorCalibration(MotorId(m), 0, 0, 0, 4095),
      [id |-> MotorId(m), drive_mode |-> 0, homing_offset |-> 0, range_min |-> 0],
      [id |-> MotorId(m), drive_mode |-> 0, homing_offset |-> 0, range_min |-> 0,
       range_max |-> 4095, norm_mode |-> 0] }

\* the motors the files of SpecLoad have entries for
LoadMotors == {"arm_shoulder_pan", "arm_gripper", "base_left_wheel"}

\* the files of SpecLoad: none, an unreadable one, and every document with an
\* entry of EntryInputs for each motor of a subset of LoadMotors
LoadFiles ==
    {FileAbsent, FileCorrupt}
    \cup UNION {{FileOf(data) : data \in [D -> UNION {EntryInputs(m) : m \in D}]} :
                   D \in SUBSET LoadMotors}

\* _load_calibration alone, on a robot that was constructed over each of
\* LoadFiles and left alone
InitLoad == InitWith({NoLimit}, LoadFiles)

NextLoad == Robot(LoadCalibration) \/ Robot(Return)

SpecLoad == InitLoad /\ [][NextLoad]_vars

\* base_radius of the two transforms by default, in mm
base_radius == 125

\* the body velocities of SpecKin: a grid with steps of 10 cm/s in x, 5 cm/s in
\* y and 40 degrees/s in theta, and a slow turn.  At two steps of x and theta
\* the right wheel is above max_raw.
KinVelocities ==
    {BodyVelocity(10 * i, 5 * j, 40 * k) :
        i \in -MaxSpeed..MaxSpeed, j \in -MaxSpeed..MaxSpeed, k \in -MaxSpeed..MaxSpeed}
    \cup {BodyVelocity(0, 0, 1)}

\* the raw wheel velocities the bus reads in SpecKin
WheelReadings == [BaseSet -> {-1129, 0, 1129}]

\* _body_to_wheel_raw(x, y, theta) with the default geometry and cap, called on
\* the robot: it touches nothing
BodyToWheelRaw(v) ==
    /\ pc = "idle"
    /\ call' = Call("_body_to_wheel_raw", is_connected, FALSE, v,
                    body_to_wheel_raw(v[<<"x", "vel">>], v[<<"y", "vel">>],
                                      v[<<"theta", "vel">>]),
                    "ok")
    /\ trace' = <<>>
    /\ pc' = "done"
    /\ UNCHANGED <<bus_connected, cam_connected, session, bus_calibration,
                   calibration_file>>

\* _wheel_raw_to_body applied to the three commands of _body_to_wheel_raw(v)
ForwardInverse(v) ==
    LET wheel_raw == body_to_wheel_raw(v[<<"x", "vel">>], v[<<"y", "vel">>],
                                       v[<<"theta", "vel">>])
    IN  /\ pc = "idle"
        /\ call' = Call("forward_inverse", is_connected, FALSE, v,
                        [wheel_raw |-> wheel_raw,
                         body |-> wheel_raw_to_body(wheel_raw["base_left_wheel"],
                                                    wheel_raw["base_back_wheel"],
                                                    wheel_raw["base_right_wheel"])],
                        "ok")
        /\ trace' = <<>>
        /\ pc' = "done"
        /\ UNCHANGED <<bus_connected, cam_connected, session, bus_calibration,
                       calibration_file>>

\* _wheel_raw_to_body(left, back, right, base_radius=radius), called on the
\* robot.  m is built from the radius on every call and handed to
\* np.linalg.inv, which raises LinAlgError for a singular matrix: the third
\* column of m is the radius in every row and the other two are those of three
\* directions 120 degrees apart, so m is singular exactly when the radius is 0.
WheelRawToBody(wheels, radius) ==
    /\ pc = "idle"
    /\ call' = Call("_wheel_raw_to_body", is_connected, FALSE,
                    [wheels |-> wheels, base_radius |-> radius],
                    IF radius = 0 THEN NoData
                    ELSE wheel_raw_to_body(wheels["base_left_wheel"],
                                           wheels["base_back_wheel"],
                                           wheels["base_right_wheel"]),
                    IF radius = 0 THEN "LinAlgError" ELSE "ok")
    /\ trace' = <<>>
    /\ pc' = "done"
    /\ UNCHANGED <<bus_connected, cam_connected, session, bus_calibration,
                   calibration_file>>

\* the transforms alone and get_observation, which calls _wheel_raw_to_body
\* without a radius, on a connected robot
NextKin ==
    \/ Robot(\E v \in KinVelocities : BodyToWheelRaw(v))
    \/ Robot(\E v \in KinVelocities : ForwardInverse(v))
    \/ Robot(\E wheels \in WheelReadings, radius \in {0, base_radius} :
                WheelRawToBody(wheels, radius))
    \/ Robot(\E wheels \in WheelReadings : GetObservation(LifecyclePresent, wheels))
    \/ Robot(Return)

SpecKin == InitCal /\ [][NextKin]_vars

\* decode(encode(r, 15), 15) for every r that _degps_to_raw returns: the speeds
\* handed to it run from below its lower cap to above its upper cap, in raw
\* steps/s.  Bit 15 is the sign bit of the velocity registers.
DegpsEncodeDecode ==
    /\ codec.op = "none"
    /\ \E n \in -32770..32770 :
          LET r == degps_to_raw(n, 1)
          IN  codec' = [op |-> "degps_encode_decode", sign_bit |-> 15, input |-> r,
                        encoded |-> encode_sign_magnitude(r, 15),
                        decoded |-> decode_sign_magnitude(encode_sign_magnitude(r, 15), 15),
                        raised |-> "none"]

\* the codec alone, beside a robot that was constructed and left alone
InitCodec == InitWith({NoLimit}, {FileAbsent}) /\ ~config.disable_torque_on_disconnect

\* a step of the codec: nothing else changes
Codec(step) == step /\ UNCHANGED <<robot_vars, loop_task, streams>>

NextCodec ==
    \/ Codec(EncodeDecode)
    \/ Codec(DecodeEncode)
    \/ Codec(DegpsEncodeDecode)
    \/ Codec(CodecReturn)

SpecCodec == InitCodec /\ [][NextCodec]_vars

---------------------------------------------------------------------------
(* The request handlers: api/routes/*.py on the one robot of                *)
(* api/dependencies.py.  Every handler is an async function that never     *)
(* awaits, so it holds the event loop from its first line to its response  *)
(* and no two handlers interleave.  The frame generator that stream_camera *)
(* hands to StreamingResponse is a plain generator: the server iterates it *)
(* on a worker thread, beside the event loop.                              *)
(*                                                                         *)
(* loop_task.state is "in_call" from the moment the handler has entered a  *)
(* method of the robot until that method has ended ("called"), and         *)
(* "responded" when the handler has returned or raised its response.       *)

Task(handler, state, step, status, success) ==
    [handler |-> handler, state |-> state, step |-> step, status |-> status,
     success |-> success]

\* the handler returns, or raises HTTPException(status)
Respond(handler, status, success) ==
    loop_task' = Task(handler, "responded", 0, status, success)

\* a request reaches a handler when the event loop is free; this handler reads
\* the robot object and calls none of its methods
Answer(handler, status) ==
    /\ loop_task = NoTask
    /\ pc = "idle"
    /\ Respond(handler, status, status = 200)
    /\ UNCHANGED <<robot_vars, codec, streams>>

\* a handler that refuses unless ready holds and else enters a robot method
Enter(handler, ready, refusal) ==
    /\ loop_task = NoTask
    /\ pc = "idle"
    /\ IF ready
       THEN loop_task' = Task(handler, "in_call", 1, 0, FALSE)
       ELSE Respond(handler, refusal, FALSE)
    /\ UNCHANGED <<robot_vars, codec, streams>>

\* the robot method the handler is in runs to its end (or to its next wait)
InCall(handler, step) ==
    /\ loop_task.handler = handler
    /\ loop_task.state = "in_call"
    /\ loop_task.step = step
    /\ loop_task' = [loop_task EXCEPT !.state = "called"]
    /\ UNCHANGED <<config, codec, streams>>

\* the robot method has ended: the handler answers 200, or 500 when it raised
Answered(handler, step) ==
    /\ loop_task.handler = handler
    /\ loop_task.state = "called"
    /\ loop_task.step = step
    /\ pc = "done"

Finish(handler, step) ==
    /\ Answered(handler, step)
    /\ Return
    /\ Respond(handler, IF call.result = "ok" THEN 200 ELSE 500, call.result = "ok")
    /\ UNCHANGED <<config, codec, streams>>

\* health_check and get_status
health_check == Answer("health_check", 200)

get_status == Answer("get_status", 200)

\* connect_robot
connect_robot == Enter("connect_robot", ~is_connected, 400)

connect_robot_call ==
    (\E answer \in BOOLEAN : Connect(FALSE, answer)) /\ InCall("connect_robot", 1)

\* disconnect_robot
disconnect_robot == Enter("disconnect_robot", is_connected, 400)

disconnect_robot_call == Disconnect /\ InCall("disconnect_robot", 1)

\* calibrate_robot: robot.calibrate() waits twice for the operator on the
\* server's standard input; whatever it raises becomes a CalibrationResponse
\* with success false
calibrate_robot == Enter("calibrate_robot", is_connected, 400)

calibrate_robot_call == Calibrate /\ InCall("calibrate_robot", 1)

calibrate_robot_wait ==
    /\ loop_task.handler = "calibrate_robot"
    /\ loop_task.state = "called"
    /\ \/ CalibrateInterrupted
       \/ CalibrateHoming(LifecycleHoming)
       \/ \E cache \in BOOLEAN, outcome \in {"saved", "open_failed", "dump_failed"} :
             CalibrateFinish(LifecycleRecording[1], LifecycleRecording[2], cache, outcome)
    /\ UNCHANGED <<config, codec, loop_task, streams>>

calibrate_robot_end ==
    /\ Answered("calibrate_robot", 1)
    /\ Return
    /\ Respond("calibrate_robot", 200, call.result = "ok")
    /\ UNCHANGED <<config, codec, streams>>

\* get_motors_state
get_motors_state == Enter("get_motors_state", is_connected, 503)

get_motors_state_call ==
    GetObservation(LifecyclePresent, LifecycleWheelVel) /\ InCall("get_motors_state", 1)

\* set_arm_position: the six goals of the request with zero velocities
set_arm_position == Enter("set_arm_position", is_connected, 503)

set_arm_position_call ==
    /\ SendAction([k \in {<<m, "pos">> : m \in ArmSet} |-> MaxPos] @@ BodyVelocity(0, 0, 0),
                  LifecyclePresent)
    /\ InCall("set_arm_position", 1)

\* set_base_velocity: get_observation, then send_action with the positions read
\* and the velocities of the request
set_base_velocity == Enter("set_base_velocity", is_connected, 503)

set_base_velocity_observe ==
    GetObservation(LifecyclePresent, LifecycleWheelVel) /\ InCall("set_base_velocity", 1)

set_base_velocity_observed ==
    /\ Answered("set_base_velocity", 1)
    /\ Return
    /\ IF call.result = "ok"
       THEN loop_task' = Task("set_base_velocity", "in_call", 2, 0, FALSE)
       ELSE Respond("set_base_velocity", 500, FALSE)
    /\ UNCHANGED <<config, codec, streams>>

set_base_velocity_send ==
    /\ \E v \in BodyVelocities :
          SendAction([k \in {<<m, "pos">> : m \in ArmSet} |-> LifecyclePresent[k[1]]] @@ v,
                     LifecyclePresent)
    /\ InCall("set_base_velocity", 2)

\* a variant of stop_motors that asks the bus alone whether it is connected
stop_motors_when_bus_connected == Enter("stop_motors", bus_connected, 503)

\* stop_motors
stop_motors == Enter("stop_motors", is_connected, 503)

stop_motors_call == StopBase /\ InCall("stop_motors", 1)

\* list_cameras
list_cameras == Answer("list_cameras", IF is_connected THEN 200 ELSE 503)

\* the camera ids of the requests: the configured cameras and one that is not
CameraIds == CameraSet \cup {"rear"}

\* get_camera_frame
get_camera_frame ==
    \E camera_id \in CameraIds :
        IF is_connected /\ camera_id \notin CameraSet
        THEN Answer("get_camera_frame", 404)
        ELSE Enter("get_camera_frame", is_connected, 503)

get_camera_frame_call ==
    GetObservation(LifecyclePresent, LifecycleWheelVel) /\ InCall("get_camera_frame", 1)

\* stream_camera: answers with a StreamingResponse over a new generate_frames()
stream_camera ==
    \E camera_id \in CameraIds :
        /\ loop_task = NoTask
        /\ pc = "idle"
        /\ Len(streams) < MaxStreams
        /\ IF ~is_connected
           THEN Respond("stream_camera", 503, FALSE) /\ UNCHANGED streams
           ELSE IF camera_id \notin CameraSet
           THEN Respond("stream_camera", 404, FALSE) /\ UNCHANGED streams
           ELSE /\ Respond("stream_camera", 200, TRUE)
                /\ streams' = Append(streams, "between_frames")
        /\ UNCHANGED <<robot_vars, codec>>

\* the robot method of a handler has ended: the handler answers 200, or 500 with
\* what was raised
handler_end ==
    \/ \E handler \in {"connect_robot", "disconnect_robot", "get_motors_state",
                        "set_arm_position", "stop_motors", "get_camera_frame"} :
          Finish(handler, 1)
    \/ Finish("set_base_velocity", 2)

\* the handler's response has gone out
respond ==
    /\ loop_task.state = "responded"
    /\ loop_task' = NoTask
    /\ UNCHANGED <<robot_vars, codec, streams>>

\* generate_frames on its worker thread enters robot.get_observation(), which
\* raises when the robot is not connected; the generator swallows what is raised
\* and ends
generate_frames_observe(g) ==
    /\ streams[g] = "between_frames"
    /\ streams' = [streams EXCEPT ![g] = IF is_connected THEN "in_get_observation"
                                         ELSE "ended"]
    /\ UNCHANGED <<robot_vars, codec, loop_task>>

\* get_observation returns and the frame is yielded, or it raises and the
\* generator ends
generate_frames_yield(g) ==
    /\ streams[g] = "in_get_observation"
    /\ \E next \in {"between_frames", "ended"} : streams' = [streams EXCEPT ![g] = next]
    /\ UNCHANGED <<robot_vars, codec, loop_task>>

\* the client goes away between two frames (GeneratorExit), or the generator
\* has ended: the server drops it
generate_frames_close(g) ==
    /\ streams[g] \in {"between_frames", "ended"}
    /\ streams' = [i \in 1..(Len(streams) - 1) |->
                      IF i < g THEN streams[i] ELSE streams[i + 1]]
    /\ UNCHANGED <<robot_vars, codec, loop_task>>

generate_frames ==
    \E g \in 1..Len(streams) :
        \/ generate_frames_observe(g)
        \/ generate_frames_yield(g)
        \/ generate_frames_close(g)

\* the server as lifespan starts it: LeKiwi(LeKiwiConfig()), not connected
InitApi ==
    /\ InitWith({NoLimit}, StartFiles)
    /\ config.disable_torque_on_disconnect

NextApi ==
    \/ health_check
    \/ get_status
    \/ connect_robot
    \/ connect_robot_call
    \/ disconnect_robot
    \/ disconnect_robot_call
    \/ calibrate_robot
    \/ calibrate_robot_call
    \/ calibrate_robot_wait
    \/ calibrate_robot_end
    \/ get_motors_state
    \/ get_motors_state_call
    \/ set_arm_position
    \/ set_arm_position_call
    \/ set_base_velocity
    \/ set_base_velocity_observe
    \/ set_base_velocity_observed
    \/ set_base_velocity_send
    \/ handler_end
    \/ stop_motors
    \/ stop_motors_call
    \/ list_cameras
    \/ get_camera_frame
    \/ get_camera_frame_call
    \/ stream_camera
    \/ respond
    \/ generate_frames

SpecApi == InitApi /\ [][NextApi]_vars

---------------------------------------------------------------------------
(* What the calls left in call and trace, for the properties below.        *)

\* a call that has ended and whose caller has not yet looked away
Finished(name) == pc = "done" /\ call.name = name

\* the positions in trace of the operations op on register reg
Places(op, reg) == {i \in 1..Len(trace) : trace[i].op = op /\ trace[i].reg = reg}

\* the batched Goal_Position write of the send_action that has ended, if it
\* got that far: the map it wrote
WroteGoalPosition == Finished("send_action") /\ Places("bus.sync_write", "Goal_Position") # {}

GoalPositionWritten ==
    trace[CHOOSE i \in Places("bus.sync_write", "Goal_Position") : TRUE].data

\* the Present_Position read of the same send_action
PresentPositionRead ==
    trace[CHOOSE i \in Places("bus.sync_read", "Present_Position") : TRUE].data

\* the limit configured for motor m: a scalar, or the entry of m in the mapping
HasLimit(m) ==
    \/ config.max_relative_target.kind = "scalar"
    \/ config.max_relative_target.kind = "dict" /\ m \in DOMAIN config.max_relative_target.dict

LimitOf(m) ==
    IF config.max_relative_target.kind = "scalar"
    THEN config.max_relative_target.scalar
    ELSE config.max_relative_target.dict[m]

\* the goal written for m is within limit of the position read and on the side
\* of the requested goal
WithinLimit(m) ==
    LET written == GoalPositionWritten[m]
        present == PresentPositionRead[m]
        goal == call.action[<<m, "pos">>]
    IN  /\ Abs(written - present) <= LimitOf(m)
        /\ \/ written - present = 0
           \/ Sign(written - present) = Sign(goal - present)

---------------------------------------------------------------------------
(* Properties.                                                             *)

C2_RoundTrip ==
    codec.op = "encode_decode" /\ Abs(codec.input) < Pow2(codec.sign_bit)
        => codec.decoded = codec.input

\* C2: a negative value of the largest magnitude its sign bit allows went
\* through encode and decode and came back
C2_NegativeRoundTrip ==
    /\ codec.op = "encode_decode"
    /\ codec.sign_bit = MaxSignBit
    /\ codec.input = -(Pow2(codec.sign_bit) - 1)
    /\ codec.encoded = Pow2(codec.sign_bit) + Pow2(codec.sign_bit) - 1
    /\ codec.decoded = codec.input

\* the zero-velocity write of stop_base: one batched Goal_Velocity write that
\* maps each of the three base actuators to 0, with a retry count of 5
ZeroVelocityWrite ==
    [op |-> "bus.sync_write", reg |-> "Goal_Velocity",
     data |-> [m \in {"base_left_wheel", "base_back_wheel", "base_right_wheel"} |-> 0],
     retry |-> 5, cal |-> NoData]

\* the bus and both configured cameras report connected
BusAndBothCameras ==
    bus_connected /\ cam_connected["front"] /\ cam_connected["wrist"]

\* C5: is_connected is true exactly when the bus reports connected and every
\* configured camera reports connected: the property has that value in every
\* state, each call has recorded that value when it began, and get_observation
\* (which changes none of the reports) was refused exactly when it is false.
C5_ConnectedComposition ==
    /\ is_connected <=> BusAndBothCameras
    /\ Finished("get_observation") =>
          /\ call.was_connected <=> BusAndBothCameras
          /\ call.result = "NotConnected" <=> ~BusAndBothCameras

\* C5: get_observation was refused while the bus and one of the two cameras
\* reported connected and the other camera did not
C5_BusUpOneCameraDown ==
    /\ Finished("get_observation")
    /\ call.result = "NotConnected"
    /\ bus_connected
    /\ cam_connected["front"]
    /\ ~cam_connected["wrist"]
    /\ ~is_connected

\* C6: stop_base, called in any lifecycle state and without checking
\* is_connected, issues one batched Goal_Velocity write that maps each of the
\* three base actuators to 0 with a retry count of 5, and writes nothing to any
\* arm actuator.
C6_StopBaseWrite ==
    Finished("stop_base") =>
        /\ trace = <<ZeroVelocityWrite>>
        /\ call.result \in {"ok", "raised"}

\* C6: stop_base was called on a robot whose bus was not connected and issued
\* its write all the same
C6_StopBaseWhileDisconnected ==
    /\ Finished("stop_base")
    /\ ~call.was_connected
    /\ ~bus_connected
    /\ Len(trace) = 1
    /\ trace[1].retry = 5

\* C8: connect() on a robot whose is_connected is true fails with
\* AlreadyConnected, and get_observation(), send_action() and disconnect() on a
\* robot whose is_connected is false fail with NotConnected; in each of these
\* cases no bus read, bus write, bus connect/disconnect or camera operation is
\* performed.
C8_RefusedCallsTouchNothing ==
    /\ Finished("connect") /\ call.was_connected =>
          call.result = "AlreadyConnected" /\ trace = <<>>
    /\ pc = "done" /\ call.name \in {"get_observation", "send_action", "disconnect"}
          /\ ~call.was_connected =>
          call.result = "NotConnected" /\ trace = <<>>

\* C8: disconnect() was refused on a robot whose bus was connected and one of
\* whose cameras was not
C8_DisconnectRefused ==
    /\ Finished("disconnect")
    /\ ~call.was_connected
    /\ bus_connected
    /\ call.result = "NotConnected"
    /\ trace = <<>>

\* C9: a successful disconnect() performs, in this order, stop_base, then
\* bus.disconnect with the configured disable-torque flag, then disconnect of
\* every camera; afterwards the bus and all cameras are disconnected and
\* is_connected is false.
C9_DisconnectOrder ==
    Finished("disconnect") /\ call.result = "ok" =>
        /\ Len(trace) = 4
        /\ trace[1] = ZeroVelocityWrite
        /\ trace[2].op = "bus.disconnect"
        /\ trace[2].reg = (IF config.disable_torque_on_disconnect
                           THEN "disable_torque" ELSE "keep_torque")
        /\ trace[3].op = "cam.disconnect"
        /\ trace[4].op = "cam.disconnect"
        /\ {trace[3].reg, trace[4].reg} = {"front", "wrist"}
        /\ ~bus_connected
        /\ ~cam_connected["front"]
        /\ ~cam_connected["wrist"]
        /\ ~is_connected

\* C9: a disconnect() returned normally on a robot configured to keep the
\* torque on
C9_DisconnectedKeepingTorque ==
    /\ Finished("disconnect")
    /\ call.result = "ok"
    /\ call.was_connected
    /\ ~config.disable_torque_on_disconnect
    /\ trace[2].reg = "keep_torque"

\* C10: for every position key of the action, the value in the map returned by
\* send_action equals the value written for that actuator in the batched
\* Goal_Position write of the same call (the clamped value when clamping
\* applied), not the requested value.
C10_ReturnsWhatWasWritten ==
    Finished("send_action") /\ call.result = "ok" =>
        /\ WroteGoalPosition
        /\ \A k \in DOMAIN call.action :
              k[2] = "pos" =>
                 /\ k \in DOMAIN call.returned
                 /\ k[1] \in DOMAIN GoalPositionWritten
                 /\ call.returned[k] = GoalPositionWritten[k[1]]

\* C10: send_action returned, for a position key, the clamped value that it
\* wrote, which is not the value requested
C10_ReturnedClampedValue ==
    /\ Finished("send_action")
    /\ call.result = "ok"
    /\ \E k \in DOMAIN call.action :
          /\ k[2] = "pos"
          /\ call.returned[k] # call.action[k]
          /\ call.returned[k] = GoalPositionWritten[k[1]]

\* send_action has ended after it issued a Goal_Position or Goal_Velocity write
WroteGoals ==
    /\ Finished("send_action")
    /\ Places("bus.sync_write", "Goal_Position") \cup Places("bus.sync_write", "Goal_Velocity") # {}

FullTurnNames == {"base_left_wheel", "base_back_wheel", "base_right_wheel", "arm_wrist_roll"}

\* the nine actuators
ActuatorNames ==
    {"arm_shoulder_pan", "arm_shoulder_lift", "arm_elbow_flex", "arm_wrist_flex",
     "arm_gripper"} \cup FullTurnNames

\* the calibration set at place i of trace was built by calibrate() from the
\* recording at place i - 1
BuiltAt(i) ==
    /\ i > 1
    /\ trace[i].op = "bus.write_calibration"
    /\ trace[i - 1].op = "bus.record_ranges_of_motion"

\* C7: in the calibration set built by calibrate(), every full-turn actuator (the
\* three wheels and the wrist-roll joint, selected by name) has range_min = 0 and
\* range_max = 4095 whatever was recorded, and every other actuator has exactly
\* the min and max returned by range recording for that actuator.
C7_CalibrationRanges ==
    \A i \in 1..Len(trace) :
        BuiltAt(i) =>
            LET calibration == trace[i].cal
                range_mins == trace[i - 1].data
                range_maxes == trace[i - 1].cal
            IN  /\ DOMAIN calibration = ActuatorNames
                /\ \A m \in FullTurnNames :
                      calibration[m].range_min = 0 /\ calibration[m].range_max = 4095
                /\ \A m \in ActuatorNames \ FullTurnNames :
                      /\ m \in DOMAIN range_mins
                      /\ m \in DOMAIN range_maxes
                      /\ calibration[m].range_min = range_mins[m]
                      /\ calibration[m].range_max = range_maxes[m]

\* C7: calibrate() returned after it built a set in which the wrist-flex joint
\* has the range recorded for it, and the wrist-roll joint, for which a range
\* was reported too, has the full turn
C7_CalibratedWithRecordedRanges ==
    /\ Finished("calibrate")
    /\ call.result = "ok"
    /\ \E i \in 1..Len(trace) :
          /\ BuiltAt(i)
          /\ trace[i - 1].data["arm_wrist_flex"] = 407
          /\ trace[i].cal["arm_wrist_flex"].range_min = 407
          /\ trace[i].cal["arm_wrist_flex"].range_max = 1407
          /\ "arm_wrist_roll" \in DOMAIN trace[i - 1].data
          /\ trace[i - 1].data["arm_wrist_roll"] # 0
          /\ trace[i].cal["arm_wrist_roll"].range_min = 0
          /\ trace[i].cal["arm_wrist_roll"].range_max = 4095

\* the handler holding the event loop is inside a method of the robot
LoopInRobotCall ==
    \/ loop_task.state = "in_call"
    \/ loop_task.state = "called" /\ pc # "done"

\* the frame generators that are inside robot.get_observation()
StreamsInRobotCall == {g \in 1..Len(streams) : streams[g] = "in_get_observation"}

\* C4: no two bus-touching operations on the shared robot instance (connect,
\* disconnect, get_observation, send_action, stop_base, calibrate) are ever in
\* progress at the same time when they are invoked through the request handlers,
\* including the frame generator of the camera stream endpoint.
C4_OneBusOperationAtATime ==
    (IF LoopInRobotCall THEN 1 ELSE 0) + Cardinality(StreamsInRobotCall) <= 1

\* the six arm actuators
ArmNames ==
    {"arm_shoulder_pan", "arm_shoulder_lift", "arm_elbow_flex", "arm_wrist_flex",
     "arm_wrist_roll", "arm_gripper"}

\* the goal the clamp keeps for m when the requested goal is g and the position
\* read is p
ClampedFrom(m, g, p) ==
    IF HasLimit(m) /\ Abs(g - p) > LimitOf(m)
    THEN p + Sign(g - p) * LimitOf(m)
    ELSE g

\* C11: when max_relative_target is configured, every send_action call (one
\* that was not refused for the connection state or for a missing velocity key)
\* performs exactly one batched Present_Position read of the arm actuators; the
\* read is the first operation of the call, so it precedes the Goal_Position
\* write; and every goal written is the requested goal clamped against the value
\* of that read.
C11_OneFreshRead ==
    Finished("send_action") /\ config.max_relative_target.kind # "none"
        /\ call.was_connected /\ BodyKeys \subseteq DOMAIN call.action =>
        LET reads == Places("bus.sync_read", "Present_Position")
            writes == Places("bus.sync_write", "Goal_Position")
        IN  /\ reads = {1}
            /\ DOMAIN trace[1].data = ArmNames
            /\ \A w \in writes : w > 1
            /\ call.result = "ok" => writes # {}
            /\ \A w \in writes : \A m \in DOMAIN trace[w].data :
                  trace[w].data[m] =
                      ClampedFrom(m, call.action[<<m, "pos">>], trace[1].data[m])

\* C11: send_action read the shoulder at MaxPos, was asked to go to -MaxPos
\* under a scalar limit, and wrote the position read less the limit
C11_ClampedAgainstTheRead ==
    /\ Finished("send_action")
    /\ call.result = "ok"
    /\ config.max_relative_target = ScalarLimit(MaxLimit)
    /\ Len(trace) = 3
    /\ trace[1].data["arm_shoulder_pan"] = MaxPos
    /\ call.action[<<"arm_shoulder_pan", "pos">>] = -MaxPos
    /\ trace[2].data["arm_shoulder_pan"] = MaxPos - MaxLimit

\* the operations that only the interactive calibration procedure issues
ProcedureOps ==
    {"input", "bus.set_half_turn_homings", "bus.record_ranges_of_motion",
     "file.mkdir", "file.write"}

\* a connect() that was not refused begins in this step
ConnectBegins == pc = "idle" /\ call'.name = "connect" /\ call'.result # "AlreadyConnected"

\* C12: when a non-empty calibration was loaded, connect() performs
\* disable_torque, then write_calibration of the loaded records, then
\* enable_torque, all after opening the bus and before connecting any camera,
\* and never runs the interactive calibration procedure, whatever the value of
\* the calibrate flag: the call ends without waiting, its first four operations
\* (as far as it got) are these, and a connect that returned has done all four
\* and connected the cameras after them.
C12_LoadedCalibrationWritten ==
    [][ConnectBegins /\ HasCalibration(bus_calibration) =>
          LET ops == trace'
              head == <<"bus.connect", "bus.disable_torque", "bus.write_calibration",
                        "bus.enable_torque">>
          IN  /\ pc' = "done"
              /\ \A i \in 1..Len(ops) :
                    /\ i <= 4 => ops[i].op = head[i]
                    /\ i > 4 => ops[i].op \notin {"bus.connect", "bus.write_calibration"}
                    /\ ops[i].op \notin ProcedureOps
              /\ Len(ops) >= 2 => DOMAIN ops[2].data = ActuatorNames
              /\ Len(ops) >= 3 => ops[3].cal = bus_calibration.records
              /\ Len(ops) >= 4 => DOMAIN ops[4].data = ActuatorNames
              /\ call'.result = "ok" =>
                    /\ Len(ops) > 4
                    /\ {ops[i].reg : i \in {j \in 1..Len(ops) : ops[j].op = "cam.connect"}}
                          = {"front", "wrist"}
    ]_vars

\* C12: connect(calibrate=True) returned after it wrote the nine records loaded
\* from the file between disable_torque and enable_torque, and then connected
\* the cameras
C12_ConnectedWithLoadedCalibration ==
    /\ Finished("connect")
    /\ call.result = "ok"
    /\ call.calibrate
    /\ Len(trace) > 5
    /\ trace[2].op = "bus.disable_torque"
    /\ trace[3].op = "bus.write_calibration"
    /\ DOMAIN trace[3].cal = ActuatorNames
    /\ trace[4].op = "bus.enable_torque"
    /\ trace[5].op = "cam.connect"

\* calibrate() was entered in the operations ops: its first operation is
\* disable_torque of the arm motors
ProcedureEntered(ops) ==
    \E i \in 1..Len(ops) :
        ops[i].op = "bus.disable_torque" /\ DOMAIN ops[i].data = ArmNames

\* C13: connect(calibrate) runs the interactive calibration procedure if and
\* only if no calibration was loaded, the bus reports uncalibrated, and calibrate
\* is true (the "if" for a connect in which neither bus.connect nor the query of
\* is_calibrated raised); with calibrate = false connect never waits for operator
\* input.
C13_CalibratesOnlyWhenAsked ==
    [][/\ ConnectBegins =>
            LET ops == trace'
                uncalibrated == /\ Len(ops) >= 2
                                /\ ops[2].op = "bus.is_calibrated"
                                /\ ops[2].reg = "False"
                wanted == ~HasCalibration(bus_calibration) /\ uncalibrated /\ call'.calibrate
            IN  /\ ProcedureEntered(ops) => wanted
                /\ wanted /\ Len(ops) >= 3 => ProcedureEntered(ops)
                /\ pc' # "done" => pc' = "await_homing" /\ ProcedureEntered(ops)
                /\ ~call'.calibrate => pc' = "done"
       /\ call'.name = "connect" /\ ~call'.calibrate =>
            /\ pc' \in {"idle", "done"}
            /\ \A i \in 1..Len(trace') : trace'[i].op \notin ProcedureOps
    ]_vars

\* C13: connect(calibrate=True) found no calibration loaded and the motors
\* reporting uncalibrated, and waits for the operator in the procedure
C13_ConnectWaitsForOperator ==
    /\ pc = "await_homing"
    /\ call.name = "connect"
    /\ call.calibrate
    /\ ~HasCalibration(bus_calibration)
    /\ trace[2].op = "bus.is_calibrated"
    /\ trace[2].reg = "False"
    /\ ProcedureEntered(trace)

\* C14: no request handler ever invokes the interactive calibration procedure:
\* while a handler holds the event loop, the robot is never inside calibrate()
\* and never waits for operator input.
C14_NoHandlerCalibrates ==
    loop_task # NoTask =>
        /\ call.name # "calibrate"
        /\ pc \notin {"await_homing", "recording"}

\* the order of calibrate() in the operations ops of a call that is at `at`
CalibrateOrder(ops, at) ==
    LET P(name) == {i \in 1..Len(ops) : ops[i].op = name}
        Before(a, b) == \A j \in P(b) : \E i \in P(a) : i < j
    IN  /\ Len(ops) >= 1 =>
              ops[1].op = "bus.disable_torque" /\ DOMAIN ops[1].data = ArmNames
        /\ \A i \in 2..7 : i <= Len(ops) =>
              /\ ops[i].op = "bus.write"
              /\ ops[i].reg = "Operating_Mode"
              /\ \E m \in ArmNames : ops[i].data = [n \in {m} |-> "POSITION"]
        /\ Len(ops) >= 7 => UNION {DOMAIN ops[i].data : i \in 2..7} = ArmNames
        /\ \A i \in 8..Len(ops) : ops[i].op \notin {"bus.disable_torque", "bus.write"}
        /\ P("input") \subseteq {8}
        /\ Before("input", "bus.set_half_turn_homings")
        /\ Before("bus.set_half_turn_homings", "bus.record_ranges_of_motion")
        /\ Before("bus.record_ranges_of_motion", "bus.write_calibration")
        /\ Before("bus.write_calibration", "file.mkdir")
        /\ Before("bus.write_calibration", "file.write")
        /\ at = "await_homing" => Len(ops) = 7
        /\ at = "recording" =>
              /\ P("bus.set_half_turn_homings") # {}
              /\ P("bus.record_ranges_of_motion") = {}

\* C15: in every run of calibrate(), arm torque is disabled and the arm set to
\* position mode first; homing offsets are captured only after the first
\* operator signal (the input() that returned); range recording starts only
\* after homing capture; the records are written only after recording has
\* returned; and the bus calibration write precedes the storage save.  The
\* procedure leaves a waiting state only by the operator's signal: its next
\* operation is the input() that returned or raised, or the return of the
\* recording.
C15_CalibrateOrder ==
    [][/\ call'.name = "calibrate" => CalibrateOrder(trace', pc')
       /\ pc \in {"await_homing", "recording"} /\ pc' # pc =>
            /\ Len(trace') > Len(trace)
            /\ SubSeq(trace', 1, Len(trace)) = trace
            /\ trace'[Len(trace) + 1].op =
                  (IF pc = "await_homing" THEN "input" ELSE "bus.record_ranges_of_motion")
    ]_vars

\* C15: calibrate() ran to its end: thirteen operations, from the torque
\* disable through the operator's signal to the save
C15_CalibrateRanThrough ==
    /\ Finished("calibrate")
    /\ call.result = "ok"
    /\ Len(trace) = 13
    /\ trace[8].op = "input"
    /\ trace[9].op = "bus.set_half_turn_homings"
    /\ trace[10].op = "bus.record_ranges_of_motion"
    /\ trace[11].op = "bus.write_calibration"
    /\ trace[13].op = "file.write"

\* the places in ops of the bus calibration write, and of the operations of
\* the storage save
CalibrationWrites(ops) == {i \in 1..Len(ops) : ops[i].op = "bus.write_calibration"}

StorageSaves(ops) == {i \in 1..Len(ops) : ops[i].op \in {"file.mkdir", "file.write"}}

\* the call runs the calibration procedure: calibrate() itself, or a connect()
\* that entered it
InProcedure(c, ops) ==
    c.name = "calibrate" \/ (c.name = "connect" /\ ProcedureEntered(ops))

\* C16: if calibrate() fails or is interrupted at any step before the bus
\* calibration write, then neither bus.write_calibration nor the storage save
\* has been performed and the persisted calibration file is unchanged; if the bus
\* write itself fails, the storage save is not performed.  The file is unchanged
\* by every stretch of the procedure up to a wait, and by a stretch that ends in
\* an exception raised before or by the bus write.
C16_NothingPersistedOnFailure ==
    [][InProcedure(call', trace') =>
          LET ops == trace'
              failed == pc' = "done" /\ call'.result = "raised"
          IN  /\ pc' \in {"await_homing", "recording"} =>
                    /\ CalibrationWrites(ops) = {}
                    /\ StorageSaves(ops) = {}
                    /\ calibration_file' = calibration_file
              /\ failed /\ CalibrationWrites(ops) = {} =>
                    /\ StorageSaves(ops) = {}
                    /\ calibration_file' = calibration_file
              /\ failed /\ CalibrationWrites(ops) = {Len(ops)} =>
                    /\ StorageSaves(ops) = {}
                    /\ calibration_file' = calibration_file
    ]_vars

\* C16: calibrate() failed in the bus calibration write, and the calibration
\* file that was there is still there
C16_BusWriteFailedFileKept ==
    /\ Finished("calibrate")
    /\ call.result = "raised"
    /\ trace[Len(trace)].op = "bus.write_calibration"
    /\ StorageSaves(trace) = {}
    /\ calibration_file = FileOf(StoredCalibration(MotorSet))

\* C17: a failure while persisting the calibration to durable storage, at any
\* step (creating the directory, opening the file, writing it), never makes
\* calibrate() fail: a calibrate() that got as far as the storage save completes
\* normally, and the calibration it wrote to the bus stays in place.
C17_SaveFailureIsNotFatal ==
    Finished("calibrate") /\ StorageSaves(trace) # {} =>
        /\ call.result = "ok"
        /\ CalibrationWrites(trace) # {}
        /\ session.calibrated

\* the five fields of a calibration record
RecordFields == {"id", "drive_mode", "homing_offset", "range_min", "range_max"}

\* no calibration can be built from the file: it is absent, it cannot be read
\* or parsed, or one of its entries does not make a record
Unloadable(file) ==
    \/ file.state # "document"
    \/ \E name \in DOMAIN file.data : DOMAIN file.data[name] # RecordFields

SetsWritten(ops) ==
    {i \in 1..Len(ops) : ops[i].op \in {"bus.write_calibration", "file.write"}}

\* C19 as stated: every calibration set that is written to the bus or saved to
\* storage, whether by calibrate() or by connect() from the persisted file,
\* contains exactly one record for each of the nine configured actuators.
C19_EveryWrittenSetIsComplete ==
    \A i \in SetsWritten(trace) : DOMAIN trace[i].cal = ActuatorNames

\* C19, for the sets calibrate() builds: every set that calibrate() writes to
\* the bus or saves to storage contains exactly one record for each of the nine
\* configured actuators, carrying that actuator's id, and the set saved is the
\* set written to the bus; the file is only ever replaced by such a set (or
\* left unreadable by a save that failed).  connect() writes the records the
\* bus holds as they are, whichever actuators they cover.
C19_BuiltSetsAreComplete ==
    [][/\ \A i \in SetsWritten(trace') :
            LET ops == trace'
            IN  IF ops[i].op = "file.write"
                THEN /\ i > 2
                     /\ ops[i - 2].op = "bus.write_calibration"
                     /\ ops[i].cal = ops[i - 2].cal
                     /\ DOMAIN ops[i].cal = ActuatorNames
                ELSE IF i > 1 /\ ops[i - 1].op = "bus.record_ranges_of_motion"
                THEN /\ DOMAIN ops[i].cal = ActuatorNames
                     /\ \A m \in ActuatorNames :
                           /\ DOMAIN ops[i].cal[m] = RecordFields
                           /\ ops[i].cal[m].id = MotorId(m)
                ELSE /\ call'.name = "connect"
                     /\ ops[i].cal = bus_calibration.records
       /\ calibration_file' # calibration_file =>
            \/ calibration_file'.state = "corrupt"
            \/ /\ calibration_file'.state = "document"
               /\ DOMAIN calibration_file'.data = ActuatorNames
    ]_vars

\* C19: connect(calibrate=True) ran the procedure, wrote a set of nine records
\* to the bus and saved the same set, which is now the calibration file
C19_NineRecordsWrittenAndSaved ==
    /\ Finished("connect")
    /\ call.result = "ok"
    /\ \E i \in 1..Len(trace) :
          /\ BuiltAt(i)
          /\ Cardinality(DOMAIN trace[i].cal) = 9
          /\ calibration_file = FileOf(trace[i].cal)

\* C20: every calibration record produced by calibrate() for a range-recorded
\* (bounded) actuator satisfies range_min < range_max, for every sequence of
\* positions sampled during recording, including when the operator does not
\* move that joint.
C20_RangeMinBelowMax ==
    \A i \in 1..Len(trace) :
        BuiltAt(i) =>
            \A m \in ActuatorNames \ FullTurnNames :
                trace[i].cal[m].range_min < trace[i].cal[m].range_max

\* the bus id of each actuator: Motor(id, ...) in the motors of the bus
BusId ==
    [m \in ActuatorNames |->
        CASE m = "arm_shoulder_pan"  -> 1
          [] m = "arm_shoulder_lift" -> 2
          [] m = "arm_elbow_flex"    -> 3
          [] m = "arm_wrist_flex"    -> 4
          [] m = "arm_wrist_roll"    -> 5
          [] m = "arm_gripper"       -> 6
          [] m = "base_left_wheel"   -> 7
          [] m = "base_back_wheel"   -> 8
          [] m = "base_right_wheel"  -> 9]

\* C21: every calibration record built by calibrate() has the actuator's bus
\* id, drive sign 0, and as homing offset the value captured at the homing step
\* for an arm actuator and 0 for a base actuator (whatever the capture reported
\* for it).
C21_RecordIdSignOffset ==
    \A i \in 1..Len(trace) :
        BuiltAt(i) =>
            /\ i > 2
            /\ trace[i - 2].op = "bus.set_half_turn_homings"
            /\ \A m \in ActuatorNames :
                  /\ trace[i].cal[m].id = BusId[m]
                  /\ trace[i].cal[m].drive_mode = 0
                  /\ trace[i].cal[m].homing_offset =
                        (IF m \in ArmNames THEN trace[i - 2].data[m] ELSE 0)

\* C21: calibrate() returned after it built records in which the gripper has
\* the offset captured for it and the left wheel, for which the capture
\* reported an offset too, has 0
C21_BuiltWithCapturedOffsets ==
    /\ Finished("calibrate")
    /\ call.result = "ok"
    /\ \E i \in 1..Len(trace) :
          /\ BuiltAt(i)
          /\ trace[i - 2].data["arm_gripper"] = -60
          /\ trace[i].cal["arm_gripper"].homing_offset = -60
          /\ "base_left_wheel" \in DOMAIN trace[i - 2].data
          /\ trace[i - 2].data["base_left_wheel"] # 0
          /\ trace[i].cal["base_left_wheel"].homing_offset = 0
          /\ trace[i].cal["base_left_wheel"].id = 7

\* the registers of the operating mode and of the gains
ModeGainRegisters ==
    {"Operating_Mode", "P_Coefficient", "I_Coefficient", "D_Coefficient"}

\* the places of trace that belong to the configuration step of connect(): the
\* ones after the connect of the last camera
ConfigurePlaces ==
    {i \in 1..Len(trace) : \E k \in Places("cam.connect", "wrist") : k < i}

\* the place i of trace is a write of register reg of motor m
WritesAt(i, reg, m) ==
    trace[i].op = "bus.write" /\ trace[i].reg = reg /\ m \in DOMAIN trace[i].data

\* the configuration step wrote register reg of motor m, and value to it
Configured(reg, m, value) ==
    /\ \E i \in ConfigurePlaces : WritesAt(i, reg, m)
    /\ \A i \in ConfigurePlaces : WritesAt(i, reg, m) => trace[i].data[m] = value

\* C22: in the configuration step of connect(), every operating-mode and gain
\* write happens after torque has been disabled on all actuators and before
\* torque is re-enabled; when the step completes, every arm actuator has been
\* put in position mode with P = 16, I = 0, D = 32, every base actuator in
\* velocity mode, and enabling the torque of all actuators is the last
\* operation.
C22_ConfigureUnderDisabledTorque ==
    Finished("connect") =>
        /\ \A i \in ConfigurePlaces :
              (trace[i].op = "bus.write" /\ trace[i].reg \in ModeGainRegisters) =>
                  /\ \E j \in ConfigurePlaces :
                        /\ j < i
                        /\ trace[j].op = "bus.disable_torque"
                        /\ DOMAIN trace[j].data = ActuatorNames
                  /\ \A j \in ConfigurePlaces :
                        j < i => trace[j].op # "bus.enable_torque"
        /\ call.result = "ok" =>
              /\ ConfigurePlaces # {}
              /\ trace[Len(trace)].op = "bus.enable_torque"
              /\ DOMAIN trace[Len(trace)].data = ActuatorNames
              /\ \A m \in ArmNames :
                    /\ Configured("Operating_Mode", m, "POSITION")
                    /\ Configured("P_Coefficient", m, 16)
                    /\ Configured("I_Coefficient", m, 0)
                    /\ Configured("D_Coefficient", m, 32)
              /\ \A m \in ActuatorNames \ ArmNames :
                    Configured("Operating_Mode", m, "VELOCITY")

\* C22: connect() returned, and its configuration step wrote the four
\* registers of the gripper and the mode of the back wheel between the
\* disable and the enable
C22_ConnectConfigured ==
    /\ Finished("connect")
    /\ call.result = "ok"
    /\ \E i, j, k, l \in ConfigurePlaces :
          /\ i < j /\ j < k /\ k < l
          /\ trace[i].op = "bus.disable_torque"
          /\ WritesAt(j, "D_Coefficient", "arm_gripper")
          /\ trace[j].data["arm_gripper"] = 32
          /\ WritesAt(k, "Operating_Mode", "base_back_wheel")
          /\ trace[l].op = "bus.enable_torque"

\* the value handed to encode has a magnitude above (1 << sign_bit) - 1
EncodedOutOfRange ==
    codec.op = "encode_decode" /\ Abs(codec.input) > Pow2(codec.sign_bit) - 1

\* C23, as claimed: encode_sign_magnitude called with a value whose magnitude
\* exceeds (1 << sign_bit) - 1 reports a ValueOutOfRange error and returns no
\* encoded register value.
C23_EncodeRejectsOutOfRange ==
    EncodedOutOfRange => codec.raised = "ValueOutOfRange"

\* C23, amended: encode_sign_magnitude called with an integer whose magnitude
\* exceeds (1 << sign_bit) - 1 reports no error; it returns the magnitude with
\* bit sign_bit set for a negative value and the value itself otherwise, and
\* decode_sign_magnitude does not turn that register value back into the value.
C23_EncodeOutOfRangeIsSilent ==
    EncodedOutOfRange =>
        /\ codec.raised = "none"
        /\ codec.encoded =
              (IF codec.input < 0
               THEN BitOr(-codec.input, Pow2(codec.sign_bit))
               ELSE codec.input)
        /\ codec.decoded # codec.input

\* C23: -20 was encoded with sign bit 4, whose largest magnitude is 15: the
\* result is 20 itself, bit 4 being a bit of the magnitude, and decodes to -4
C23_SignBitCorrupted ==
    /\ codec.op = "encode_decode"
    /\ codec.sign_bit = 4
    /\ codec.input = -20
    /\ codec.raised = "none"
    /\ codec.encoded = 20
    /\ codec.decoded = -4

\* the wheel commands and the unscaled wheel speeds of the forward transform
\* that has ended, for the wheels left, back, right
ForwardEnded == Finished("_body_to_wheel_raw") \/ Finished("forward_inverse")

WheelCommands ==
    LET w == IF call.name = "forward_inverse" THEN call.returned.wheel_raw
             ELSE call.returned
    IN  <<w["base_left_wheel"], w["base_back_wheel"], w["base_right_wheel"]>>

Unscaled ==
    wheel_degps(call.action[<<"x", "vel">>], call.action[<<"y", "vel">>],
                call.action[<<"theta", "vel">>])

LargestUnscaled ==
    CHOOSE a \in {Abs(Unscaled[i]) : i \in 1..3} :
        \A i \in 1..3 : a >= Abs(Unscaled[i])

\* the largest wheel magnitude exceeds the cap of 3000 raw steps/s
SaturationTriggers == LargestUnscaled > 3000 * WheelDen

\* C24: for every body velocity (x, y, theta), each of the three wheel raw
\* commands returned by the forward transform is an integer in
\* [-32768, 32767], and with the default cap its magnitude is at most 3000; the
\* wheel with the largest unscaled magnitude gets exactly the cap when
\* saturation triggers.
C24_WheelCommandsWithinCap ==
    ForwardEnded =>
        \A i \in 1..3 :
            /\ WheelCommands[i] \in -32768..32767
            /\ Abs(WheelCommands[i]) <= 3000
            /\ (SaturationTriggers /\ Abs(Unscaled[i]) = LargestUnscaled)
                  => Abs(WheelCommands[i]) = 3000

\* C24: 20 cm/s forward while turning at 80 degrees/s asks 4534 raw steps/s of
\* the right wheel; it was commanded 3000 and the other two less
C24_RightWheelAtCap ==
    /\ Finished("_body_to_wheel_raw")
    /\ call.action = BodyVelocity(20, 0, 80)
    /\ SaturationTriggers
    /\ Unscaled[3] = LargestUnscaled
    /\ WheelCommands[3] = 3000
    /\ Abs(WheelCommands[1]) < 3000
    /\ Abs(WheelCommands[2]) < 3000

\* C25: whenever the largest wheel magnitude exceeds the cap, the forward
\* transform multiplies all three wheel speeds by one common factor in (0, 1),
\* cap / largest: every command is its wheel's unscaled speed times that factor,
\* rounded to the nearest integer, so it keeps the sign of the unscaled speed
\* and no wheel is clipped independently of the others.
C25_UniformScaling ==
    (ForwardEnded /\ SaturationTriggers) =>
        /\ 0 < 3000 * WheelDen
        /\ 3000 * WheelDen < LargestUnscaled
        /\ \A i \in 1..3 :
              /\ Abs(WheelCommands[i] * LargestUnscaled - Unscaled[i] * 3000)
                    <= LargestUnscaled \div 2
              /\ WheelCommands[i] * Unscaled[i] >= 0

\* C25: 20 cm/s forward, 10 cm/s sideways and a turn of 80 degrees/s ask 5186
\* raw steps/s of the right wheel and 3382 of the back wheel, both above the
\* cap: the right wheel was commanded 3000 and the back wheel 3000 * 3382 /
\* 5186, not 3000
C25_BothAboveCapScaledTogether ==
    /\ Finished("_body_to_wheel_raw")
    /\ call.action = BodyVelocity(20, -10, 80)
    /\ Abs(Unscaled[2]) > 3000 * WheelDen
    /\ Abs(Unscaled[3]) > 3000 * WheelDen
    /\ WheelCommands[3] = 3000
    /\ Abs(WheelCommands[2]) < 3000
    /\ Abs(WheelCommands[2]) > 1500

\* the body velocity asked of the round trip and the one that came back: x and
\* y in 1e-9 m/s, theta in 1/256000 degrees/s
AskedBody ==
    <<call.action[<<"x", "vel">>] * 10000000,
      call.action[<<"y", "vel">>] * 10000000,
      call.action[<<"theta", "vel">>] * 256000>>

CameBack ==
    <<call.returned.body[<<"x", "vel">>],
      call.returned.body[<<"y", "vel">>],
      call.returned.body[<<"theta", "vel">>] * 1000>>

\* C26, as claimed: for every body velocity whose three wheel speeds stay
\* under the saturation cap, the forward transform followed by the inverse
\* transform gives the velocity back within 1e-3 in each of the three
\* components (m/s, m/s, degrees/s).
C26_RoundTripWithinTolerance ==
    (Finished("forward_inverse") /\ ~SaturationTriggers) =>
        /\ Abs(CameBack[1] - AskedBody[1]) <= 1000000
        /\ Abs(CameBack[2] - AskedBody[2]) <= 1000000
        /\ Abs(CameBack[3] - AskedBody[3]) <= 256

\* C26, amended: under the cap the round trip gives x and y back within 1e-3
\* m/s and theta within 0.018 degrees/s: each wheel command is off by up to
\* half a raw step, and three half steps are 4.5 / 256 degrees/s of theta.
C26_RoundTripWithinRounding ==
    (Finished("forward_inverse") /\ ~SaturationTriggers) =>
        /\ Abs(CameBack[1] - AskedBody[1]) <= 1000000
        /\ Abs(CameBack[2] - AskedBody[2]) <= 1000000
        /\ Abs(CameBack[3] - AskedBody[3]) <= 4608

\* C26: a turn of 1 degree/s was commanded as 28 raw steps/s on each wheel
\* (28.44 before rounding) and came back as 252 / 256 degrees/s
C26_SlowTurnComesBackShort ==
    /\ Finished("forward_inverse")
    /\ call.action = BodyVelocity(0, 0, 1)
    /\ ~SaturationTriggers
    /\ WheelCommands = <<28, 28, 28>>
    /\ call.returned.body[<<"theta", "vel">>] = 252
    /\ call.returned.body[<<"x", "vel">>] = 0

\* the operations of trace other than a batched read of the bus and a frame
\* read of a camera
BusChanges ==
    {i \in 1..Len(trace) :
        trace[i].op \notin {"bus.sync_read", "cam.async_read"}}

\* C27: a successful get_observation() performs exactly one batched
\* Present_Position read over the six arm actuators and exactly one batched
\* Present_Velocity read over the three base actuators, performs no bus write
\* (nothing but these two reads and the frame reads of the cameras), and
\* returns a map holding one position entry per arm actuator, the three
\* body-velocity entries x, y, theta, and one entry per configured camera.
C27_ObservationReadsOnly ==
    (Finished("get_observation") /\ call.result = "ok") =>
        /\ Cardinality(Places("bus.sync_read", "Present_Position")) = 1
        /\ Cardinality(Places("bus.sync_read", "Present_Velocity")) = 1
        /\ \A i \in Places("bus.sync_read", "Present_Position") :
              DOMAIN trace[i].data = ArmNames
        /\ \A i \in Places("bus.sync_read", "Present_Velocity") :
              DOMAIN trace[i].data = ActuatorNames \ ArmNames
        /\ {i \in 1..Len(trace) : trace[i].op = "bus.sync_read"}
              = Places("bus.sync_read", "Present_Position")
                \cup Places("bus.sync_read", "Present_Velocity")
        /\ BusChanges = {}
        /\ DOMAIN call.returned =
              {<<m, "pos">> : m \in ArmNames}
              \cup {<<"x", "vel">>, <<"y", "vel">>, <<"theta", "vel">>}
              \cup {<<"front", "">>, <<"wrist", "">>}

\* C27: get_observation() returned the gripper position it read and the body
\* velocity of the wheel velocities it read, after four operations
C27_ObservationReturned ==
    /\ Finished("get_observation")
    /\ call.result = "ok"
    /\ Len(trace) = 4
    /\ trace[1].op = "bus.sync_read"
    /\ trace[2].op = "bus.sync_read"
    /\ call.returned[<<"arm_gripper", "pos">>] = trace[1].data["arm_gripper"]
    /\ trace[2].data["base_right_wheel"] = 1129
    /\ call.returned[<<"x", "vel">>] > 0
    /\ <<"wrist", "">> \in DOMAIN call.returned

\* C28: the kinematic mapping matrix is checked for invertibility once, when
\* the robot object is constructed, and a non-invertible geometry fails at
\* construction with a KinematicsSingularity error: on a robot that was
\* constructed, no evaluation of the inverse transform, that of get_observation
\* included, meets a singular matrix.
C28_SingularityCaughtAtConstruction ==
    pc = "done" => call.result # "LinAlgError"

\* C29: send_action writes an arm position goal unchanged whenever
\* max_relative_target is not configured, or the per-actuator mapping has no
\* entry for that actuator, or |goal - present| <= limit; when
\* max_relative_target is not configured it performs no Present_Position read
\* at all.
C29_GoalUnchangedWithinLimit ==
    /\ WroteGoalPosition =>
          \A m \in DOMAIN GoalPositionWritten :
              (IF ~HasLimit(m) THEN TRUE
               ELSE Abs(call.action[<<m, "pos">>] - PresentPositionRead[m]) <= LimitOf(m))
                  => GoalPositionWritten[m] = call.action[<<m, "pos">>]
    /\ (Finished("send_action") /\ config.max_relative_target.kind = "none")
          => Places("bus.sync_read", "Present_Position") = {}

\* C29: under a mapping that names the shoulder only, a gripper goal two
\* MaxPos away from the position read was written as requested
C29_UnlistedActuatorUnclamped ==
    /\ WroteGoalPosition
    /\ config.max_relative_target.kind = "dict"
    /\ DOMAIN config.max_relative_target.dict = {"arm_shoulder_pan"}
    /\ "arm_gripper" \in DOMAIN GoalPositionWritten
    /\ call.action[<<"arm_gripper", "pos">>] = MaxPos
    /\ PresentPositionRead["arm_gripper"] = -MaxPos
    /\ GoalPositionWritten["arm_gripper"] = MaxPos

\* C30: whenever the bus is connected but at least one camera is not (for
\* example after connect() failed while connecting a camera, which leaves the
\* bus open), disconnect() fails with NotConnected and performs neither the
\* base stop nor the bus disconnect, so the bus stays connected and the cameras
\* stay as they were.
C30_HalfOpenDisconnectRefused ==
    [][(/\ pc = "idle"
        /\ call'.name = "disconnect"
        /\ bus_connected
        /\ \E c \in {"front", "wrist"} : ~cam_connected[c])
       => (/\ pc' = "done"
           /\ call'.result = "NotConnected"
           /\ trace' = <<>>
           /\ bus_connected'
           /\ cam_connected' = cam_connected)]_vars

\* C30: disconnect() was refused in a session that connect() opened and did not
\* finish: the bus and the front camera are connected, the wrist camera is not
C30_BusLeftOpenAfterFailedConnect ==
    /\ Finished("disconnect")
    /\ call.result = "NotConnected"
    /\ trace = <<>>
    /\ ~session.established
    /\ bus_connected
    /\ cam_connected["front"]
    /\ ~cam_connected["wrist"]

\* C31: the emergency-stop request handler calls stop_base only when
\* is_connected is true: a stop_base begins only on a robot whose bus and
\* cameras are all connected, and a stop request that arrives when the bus is
\* connected but a camera is not is answered with 503 without any operation on
\* the robot, so no zero-velocity write is issued.
C31_StopOnlyWhenConnected ==
    [][/\ (pc = "idle" /\ call'.name = "stop_base") =>
             (bus_connected /\ cam_connected["front"] /\ cam_connected["wrist"])
       /\ (/\ loop_task.handler = "none"
           /\ loop_task'.handler = "stop_motors"
           /\ bus_connected
           /\ \E c \in {"front", "wrist"} : ~cam_connected[c])
          => (/\ loop_task'.state = "responded"
              /\ loop_task'.status = 503
              /\ pc' = "idle"
              /\ trace' = <<>>
              /\ call'.name = "none")]_vars

\* C31: the emergency stop was answered with 503 while the bus was connected
\* and the wrist camera was not; nothing was written
C31_StopRefusedOnOpenBus ==
    /\ loop_task.handler = "stop_motors"
    /\ loop_task.state = "responded"
    /\ loop_task.status = 503
    /\ bus_connected
    /\ ~cam_connected["wrist"]
    /\ pc = "idle"
    /\ trace = <<>>

\* the batched Goal_Velocity write of the send_action that has ended
GoalVelocityWritten ==
    trace[CHOOSE i \in Places("bus.sync_write", "Goal_Velocity") : TRUE].data

C33_RawSpeedSurvivesCodec ==
    codec.op = "degps_encode_decode" => codec.decoded = codec.input

\* C34: for every sign_bit b and every raw register value in [0, 2^(b+1)),
\* encode_sign_magnitude(decode_sign_magnitude(raw, b), b) = raw, except for the
\* negative-zero pattern raw = 1 << b, which decodes to 0 and re-encodes to 0;
\* decode ignores every bit above the sign bit: what it returns is the value of
\* the low b + 1 bits of raw, whatever the bits above them.
C34_DecodeThenEncode ==
    codec.op = "decode_encode" =>
        LET b == codec.sign_bit
            low == codec.input % (2 ^ (b + 1))
        IN  /\ codec.input < 2 ^ (b + 1) =>
                  IF codec.input = 2 ^ b
                  THEN codec.decoded = 0 /\ codec.encoded = 0
                  ELSE codec.encoded = codec.input
            /\ codec.decoded = (IF low >= 2 ^ b THEN -(low - 2 ^ b) ELSE low)

\* C34: with sign bit 3, the register value 8 (negative zero) was decoded to 0
\* and encoded to 0
C34_NegativeZeroCollapses ==
    /\ codec.op = "decode_encode"
    /\ codec.sign_bit = 3
    /\ codec.input = 8
    /\ codec.decoded = 0
    /\ codec.encoded = 0

=============================================================================
